---- MODULE Spec2Model ----
(***************************************************************************)
(* Model of the optimisation logic of the POST /optimize handler of        *)
(* src/app.js (lines 1130-1298): input check, sanitisation of the coal     *)
(* entries, the pruned depth-first enumeration of integer blends summing   *)
(* to 100, the scoring of every blend, and the selection of the best-AFT,  *)
(* cheapest and balanced blends.  A request of Spec is one that has       *)
(* passed requireAuth and the lock and trial checks of lines 1110-1122.    *)
(* The naive cross-product generator of the older handler (lines           *)
(* 1684-1698) is modelled beside it for comparison (SpecGen), calculateAFT *)
(* is also run on its own (SpecAft), and two invocations of the handler    *)
(* are interleaved at its await (SpecConc).  SpecPair runs the handler on  *)
(* two requests side by side, SpecDfs runs the depth-first enumeration     *)
(* one call and one loop iteration at a time, and SpecNorm applies         *)
(* normalizeCoalDoc (lines 101-170) to a coal document.                    *)
(* The user document with its trials and its lock, the session, and the    *)
(* requests to /auth/login, /optimize and /consume-trial that read and     *)
(* save it (lines 180-199, 932-957, 1110-1128, 1279-1284, 1360-1394) are   *)
(* modelled in SpecUser, with the awaits of the handlers as the points     *)
(* where two requests interleave.                                          *)
(*                                                                         *)
(* Number representation.  JavaScript numbers are modelled exactly, as     *)
(* integers in a fixed unit:                                               *)
(*   - raw min / max of a request entry: tenths (335 is 33.5);             *)
(*   - sanitised bounds and blend percentages: units (integers, as the     *)
(*     code's Math.round makes them);                                      *)
(*   - oxide values of a coal, cost per ton, GCV: units;                   *)
(*   - blended oxides, blend cost, blend gcv: hundredths (the code         *)
(*     divides an integer-weighted sum by 100);                            *)
(*   - predicted AFT: 10^-5 (coefficients have three decimals and the      *)
(*     blended oxides two).                                                *)
(* IEEE-754 rounding and overflow to Infinity are outside the model; a     *)
(* request field that is itself Infinity is modelled (Inf).                *)
(***************************************************************************)
EXTENDS Integers, Sequences, FiniteSets, TLC

\* ------------------------------------------------------------------------
\* Bounds of the model
\* ------------------------------------------------------------------------

\* largest number of coal entries in a request's blends array, and of
\* bounds in a list handed to the two generators
MaxCoals == 3

\* largest cross product (number of vectors the naive generator visits) of
\* a bounds list on which the two generators are compared
MaxCross == 10201

\* ------------------------------------------------------------------------
\* JavaScript values of the request, tagged (a JSON value is a number, a
\* string, null, or absent)
\* ------------------------------------------------------------------------

Num(n) == [t |-> "num", v |-> n]
\* a string that Number() parses to n, e.g. "12"
NumStr(n) == [t |-> "numstr", v |-> n]
\* a string with thousands separators, e.g. "1,200": Number() gives NaN,
\* and n once the commas are removed
CommaStr(n) == [t |-> "commastr", v |-> n]
BadStr == [t |-> "badstr", v |-> 0]
EmptyStr == [t |-> "emptystr", v |-> 0]
Null == [t |-> "null", v |-> 0]
Undefined == [t |-> "undefined", v |-> 0]
\* the number Infinity, which JSON.parse gives for a literal such as 1e999;
\* v is the sign
Inf == [t |-> "inf", v |-> 1]
NaN == [t |-> "nan", v |-> 0]

\* Number(x)
ToNumber(x) ==
  CASE x.t = "num" -> x
    [] x.t = "numstr" -> Num(x.v)
    [] x.t = "null" -> Num(0)
    [] x.t = "emptystr" -> Num(0)
    [] x.t = "inf" -> Inf
    [] OTHER -> NaN

\* Number.isFinite(n)
IsFinite(n) == n.t = "num"

\* a ?? b
Coalesce(a, b) == IF a.t \in {"null", "undefined"} THEN b ELSE a

\* Math.min, Math.max of two numbers
Min2(a, b) == IF a <= b THEN a ELSE b
Max2(a, b) == IF a >= b THEN a ELSE b

\* Math.round of a number given in tenths: the nearest integer, halves up
RoundTenths(t) == (t + 5) \div 10

\* ------------------------------------------------------------------------
\* Oxide columns (src/app.js line 1137) and property keys
\* ------------------------------------------------------------------------

oxideCols == <<"SiO2", "Al2O3", "Fe2O3", "CaO", "MgO", "Na2O", "K2O", "SO3", "TiO2">>

\* col.toUpperCase()
ToUpperCase(col) ==
  CASE col = "SiO2" -> "SIO2" [] col = "Al2O3" -> "AL2O3"
    [] col = "Fe2O3" -> "FE2O3" [] col = "CaO" -> "CAO"
    [] col = "MgO" -> "MGO" [] col = "Na2O" -> "NA2O"
    [] col = "K2O" -> "K2O" [] col = "SO3" -> "SO3"
    [] col = "TiO2" -> "TIO2"

\* col.toLowerCase()
ToLowerCase(col) ==
  CASE col = "SiO2" -> "sio2" [] col = "Al2O3" -> "al2o3"
    [] col = "Fe2O3" -> "fe2o3" [] col = "CaO" -> "cao"
    [] col = "MgO" -> "mgo" [] col = "Na2O" -> "na2o"
    [] col = "K2O" -> "k2o" [] col = "SO3" -> "so3"
    [] col = "TiO2" -> "tio2"

\* the GCV keys tried in turn (src/app.js line 1166)
gcvKeys == <<"GCV", "Gcv", "gcv", "gcv">>

\* every key a properties object of the model may carry
PropKeys ==
  {oxideCols[k] : k \in 1..9} \cup {ToUpperCase(oxideCols[k]) : k \in 1..9}
    \cup {ToLowerCase(oxideCols[k]) : k \in 1..9} \cup {"GCV", "Gcv", "gcv"}

\* ------------------------------------------------------------------------
\* Request entries.  An entry of blends is null or an object
\*   { coal, properties, min, max, current, cost }
\* whose properties is absent (hasProps = FALSE) or maps keys to values;
\* an absent key reads as undefined.  min and max are in tenths, current
\* is in units.
\* ------------------------------------------------------------------------

NoProps == [k \in PropKeys |-> Undefined]

\* properties with the canonical keys: nine oxides and GCV, as numbers
CanonProps(ox, gcv) ==
  [k \in PropKeys |->
     IF \E i \in 1..9 : oxideCols[i] = k
       THEN Num(ox[CHOOSE i \in 1..9 : oxideCols[i] = k])
       ELSE IF k = "GCV" THEN Num(gcv) ELSE Undefined]

\* properties keyed in lower case with the numbers sent as strings
LowerProps(ox, gcv) ==
  [k \in PropKeys |->
     IF \E i \in 1..9 : ToLowerCase(oxideCols[i]) = k
       THEN NumStr(ox[CHOOSE i \in 1..9 : ToLowerCase(oxideCols[i]) = k])
       ELSE IF k = "gcv" THEN NumStr(gcv) ELSE Undefined]

\* canonical properties in which the oxides of the set gone are null,
\* absent, not numeric or the empty string, and GCV is not numeric
HoledProps(ox, gone) ==
  [k \in PropKeys |->
     IF \E i \in 1..9 : oxideCols[i] = k
       THEN LET i == CHOOSE j \in 1..9 : oxideCols[j] = k
            IN IF i \in gone
                 THEN (CASE i % 4 = 0 -> Null [] i % 4 = 1 -> Undefined
                         [] i % 4 = 2 -> BadStr [] OTHER -> EmptyStr)
                 ELSE Num(ox[i])
       ELSE IF k = "GCV" THEN BadStr ELSE Undefined]

Entry(name, hp, props, mn, mx, cur, cost) ==
  [isNull |-> FALSE, coal |-> name, hasProps |-> hp, properties |-> props,
   min |-> mn, max |-> mx, current |-> cur, cost |-> cost]

NullEntry == [Entry("", FALSE, NoProps, Undefined, Undefined, Undefined, Undefined)
                EXCEPT !.isNull = TRUE]

\* oxide vectors of the coals of the model, in the order of oxideCols
OxA == <<50, 10, 8, 5, 2, 1, 1, 2, 1>>
OxB == <<30, 5, 12, 10, 3, 2, 1, 3, 1>>
OxD == <<60, 20, 4, 3, 1, 1, 1, 1, 1>>

\* the entries a request may carry for each coal: the well-formed entry
\* and entries with missing, non-numeric, infinite, negative, fractional,
\* out-of-range or inverted fields; the entries of "" are null or carry no coal name
EntriesOf(name) ==
  CASE name = "A" ->
         { Entry("A", TRUE, CanonProps(OxA, 5000), Num(0), Num(1000), Num(60), Num(10)),
           Entry("A", FALSE, NoProps, Undefined, Undefined, Undefined, Undefined) }
    [] name = "B" ->
         { Entry("B", TRUE, CanonProps(OxB, 6000), Num(0), Num(1000), Num(40), Num(20)),
           Entry("B", TRUE, LowerProps(OxB, 6000), NumStr(700), NumStr(300), NumStr(40), CommaStr(1200)) }
    [] name = "C" ->
         { Entry("C", TRUE, CanonProps(OxA, 5000), Num(330), Num(330), Num(33), Num(20)),
           Entry("C", TRUE, CanonProps(OxA, 5000), Num(330), Num(340), Num(33), Num(20)),
           Entry("C", TRUE, CanonProps(OxA, 5000), Num(600), Num(600), Num(50), Num(20)) }
    [] name = "D" ->
         { Entry("D", TRUE, CanonProps(OxD, 5500), Num(334), Null, Num(33), Num(10)),
           Entry("D", TRUE, HoledProps(OxD, {2, 3, 4, 5}), Num(325), Num(344), BadStr, EmptyStr),
           Entry("D", TRUE, CanonProps(OxD, 5500), Num(600), Num(600), Inf, Num(10)) }
    [] name = "E" ->
         { Entry("E", TRUE, CanonProps(OxD, 5500), Num(330), Num(330), Num(33), Num(10)),
           Entry("E", TRUE, CanonProps(OxD, 5500), Num(330), Num(340), Num(34), Num(-10)) }
    [] name = "" ->
         { NullEntry,
           Entry("", TRUE, CanonProps(OxB, 6000), Num(250), Num(250), Inf, Inf) }

CoalNames == {"A", "B", "C", "D", "E", ""}

\* the blends arrays of the model: up to MaxCoals entries of distinct coals
RECURSIVE BlendsFrom(_, _)
BlendsFrom(names, n) ==
  IF n = 0 THEN {<<>>}
  ELSE {<<>>} \cup
       UNION { { <<e>> \o rest : e \in EntriesOf(nm), rest \in BlendsFrom(names \ {nm}, n - 1) }
               : nm \in names }

\* the value of req.body.blends: absent, a non-array (a string), or an array
BodyMissing == [t |-> "undefined", items |-> <<>>]
BodyNotArray == [t |-> "string", items |-> <<>>]
BodyArray(items) == [t |-> "array", items |-> items]

Bodies == {BodyMissing, BodyNotArray} \cup {BodyArray(s) : s \in BlendsFrom(CoalNames, MaxCoals)}

\* ------------------------------------------------------------------------
\* Sanitisation (src/app.js lines 1140-1169)
\* ------------------------------------------------------------------------

\* blends.map(b => b.coal || '')
CoalNameOf(b) == b.coal

\* one coal's nine oxide values: the first of the canonical, upper-case and
\* lower-case key that is neither null nor undefined, else 0; a value that
\* is not a finite number is 0
OxideValuesOf(b) ==
  [k \in 1..9 |->
     LET col == oxideCols[k]
         found == IF b.hasProps
                    THEN Coalesce(Coalesce(b.properties[col], b.properties[ToUpperCase(col)]),
                                  b.properties[ToLowerCase(col)])
                    ELSE Undefined
         v == Coalesce(found, Num(0))
         n == ToNumber(v)
     IN IF IsFinite(n) THEN n.v ELSE 0]

\* MinMaxBoundsOf with a missing max defaulting to 0
MinMaxBoundsOf_maxDefault0(b) ==
  LET min == IF IsFinite(ToNumber(b.min)) THEN ToNumber(b.min).v ELSE 0
      max == IF IsFinite(ToNumber(b.max)) THEN ToNumber(b.max).v ELSE 0
      mm == Max2(0, Min2(1000, min))
      mx == Max2(mm, Min2(1000, max))
  IN <<RoundTenths(mm), RoundTenths(mx)>>

\* MinMaxBoundsOf swapping an inverted pair
MinMaxBoundsOf_swapped(b) ==
  LET min == IF IsFinite(ToNumber(b.min)) THEN ToNumber(b.min).v ELSE 0
      max == IF IsFinite(ToNumber(b.max)) THEN ToNumber(b.max).v ELSE 1000
      mm == Max2(0, Min2(1000, min))
      mx == Max2(0, Min2(1000, max))
  IN <<RoundTenths(Min2(mm, mx)), RoundTenths(Max2(mm, mx))>>

\* one coal's [min, max]: defaults 0 and 100, clamped to [0,100], max raised
\* to min when below it, both rounded (tenths in, units out)
MinMaxBoundsOf(b) ==
  LET min == IF IsFinite(ToNumber(b.min)) THEN ToNumber(b.min).v ELSE 0
      max == IF IsFinite(ToNumber(b.max)) THEN ToNumber(b.max).v ELSE 1000
      mm == Max2(0, Min2(1000, min))
      mx == Max2(mm, Min2(1000, max))
  IN <<RoundTenths(mm), RoundTenths(mx)>>

\* String(cost).replace(/,/g, '').trim() then Number()
StripCommasToNumber(c) ==
  CASE c.t \in {"num", "numstr", "commastr"} -> Num(c.v)
    [] c.t = "emptystr" -> Num(0)
    [] c.t = "inf" -> Inf
    [] OTHER -> NaN

\* one coal's cost per ton: 0 when null, undefined, '' or not finite
CostPerTonOf(b) ==
  IF b.cost.t \in {"null", "undefined", "emptystr"} THEN 0
  ELSE LET n == StripCommasToNumber(b.cost)
       IN IF IsFinite(n) THEN n.v ELSE 0

\* one coal's GCV: the first of GCV, Gcv, gcv that is neither null nor
\* undefined; 0 when not a finite number
GcvValueOf(b) ==
  LET gRaw == IF b.hasProps
                THEN Coalesce(Coalesce(Coalesce(b.properties[gcvKeys[1]], b.properties[gcvKeys[2]]),
                                       b.properties[gcvKeys[3]]), b.properties[gcvKeys[4]])
                ELSE Undefined
      n == ToNumber(gRaw)
  IN IF IsFinite(n) THEN n.v ELSE 0

\* ------------------------------------------------------------------------
\* calculateAFT (src/app.js lines 461-480).  values: nine oxide values in
\* hundredths; result in 10^-5.
\* ------------------------------------------------------------------------

\* calculateAFT with the first threshold inclusive on the low regime
calculateAFT_inclusive55(values) ==
  LET SiO2 == values[1]  Al2O3 == values[2]  Fe2O3 == values[3]
      CaO == values[4]   MgO == values[5]    Na2O == values[6]
      K2O == values[7]   SO3 == values[8]    Ti2O == values[9]
      sumSiAl == SiO2 + Al2O3
  IN IF sumSiAl <= 5500
       THEN 124500000 + 1100 * SiO2 + 950 * Al2O3 - 2500 * Fe2O3 - 2980 * CaO
            - 4500 * MgO - 7890 * (Na2O + K2O) - 1700 * SO3 - 630 * Ti2O
     ELSE IF sumSiAl >= 5500 /\ sumSiAl < 7500
       THEN 132300000 + 1450 * SiO2 + 683 * Al2O3 - 2390 * Fe2O3 - 3100 * CaO
            - 4500 * MgO - 7490 * (Na2O + K2O) - 2100 * SO3 - 630 * Ti2O
     ELSE 139500000 + 1200 * SiO2 + 900 * Al2O3 - 2500 * Fe2O3 - 3100 * CaO
            - 4500 * MgO - 7200 * (Na2O + K2O) - 1700 * SO3 - 630 * Ti2O

calculateAFT(values) ==
  LET SiO2 == values[1]  Al2O3 == values[2]  Fe2O3 == values[3]
      CaO == values[4]   MgO == values[5]    Na2O == values[6]
      K2O == values[7]   SO3 == values[8]    Ti2O == values[9]
      sumSiAl == SiO2 + Al2O3
  IN IF sumSiAl < 5500
       THEN 124500000 + 1100 * SiO2 + 950 * Al2O3 - 2500 * Fe2O3 - 2980 * CaO
            - 4500 * MgO - 7890 * (Na2O + K2O) - 1700 * SO3 - 630 * Ti2O
     ELSE IF sumSiAl >= 5500 /\ sumSiAl < 7500
       THEN 132300000 + 1450 * SiO2 + 683 * Al2O3 - 2390 * Fe2O3 - 3100 * CaO
            - 4500 * MgO - 7490 * (Na2O + K2O) - 2100 * SO3 - 630 * Ti2O
     ELSE 139500000 + 1200 * SiO2 + 900 * Al2O3 - 2500 * Fe2O3 - 3100 * CaO
            - 4500 * MgO - 7200 * (Na2O + K2O) - 1700 * SO3 - 630 * Ti2O

\* ------------------------------------------------------------------------
\* generateCombinations (src/app.js lines 1171-1200)
\* ------------------------------------------------------------------------

\* step granularity (1% step)
step == 1

\* arr.reduce((s, v) => s + v, 0)
RECURSIVE SumSeq(_)
SumSeq(arr) == IF arr = <<>> THEN 0 ELSE arr[1] + SumSeq(Tail(arr))

\* bounds.slice(idx + 1).reduce((s, b) => s + b[k], 0), idx counted from 0
RECURSIVE RemainingSum(_, _, _)
RemainingSum(bounds, idx, k) ==
  IF idx + 1 >= Len(bounds) THEN 0
  ELSE bounds[idx + 2][k] + RemainingSum(bounds, idx + 1, k)

RECURSIVE generateCombinations(_, _, _)
RECURSIVE GenLoop(_, _, _, _, _)

\* generateCombinations with the last value taken as the coal's minimum
\* instead of forced to the rest
generateCombinations_unforced(bounds, idx, acc) ==
  IF idx = Len(bounds) - 1
    THEN LET lastVal == 100 - SumSeq(acc)
             minLast == bounds[idx + 1][1]
             maxLast == bounds[idx + 1][2]
         IN IF lastVal >= minLast /\ lastVal <= maxLast
              THEN << Append(acc, minLast) >>
              ELSE << >>
    ELSE GenLoop(bounds, idx, acc, bounds[idx + 1][1], bounds[idx + 1][2])

\* generateCombinations yielding the forced last value without the range
\* check
generateCombinations_unchecked(bounds, idx, acc) ==
  IF idx = Len(bounds) - 1
    THEN << Append(acc, 100 - SumSeq(acc)) >>
    ELSE GenLoop(bounds, idx, acc, bounds[idx + 1][1], bounds[idx + 1][2])

\* generateCombinations checking the forced last value against the coal's
\* minimum only
generateCombinations_lowerOnly(bounds, idx, acc) ==
  IF idx = Len(bounds) - 1
    THEN LET lastVal == 100 - SumSeq(acc)
             minLast == bounds[idx + 1][1]
         IN IF lastVal >= minLast THEN << Append(acc, lastVal) >> ELSE << >>
    ELSE GenLoop(bounds, idx, acc, bounds[idx + 1][1], bounds[idx + 1][2])

\* generateCombinations whose loop stops before the coal's maximum
\* (v < max)
generateCombinations_exclusiveMax(bounds, idx, acc) ==
  IF idx = Len(bounds) - 1
    THEN LET sumSoFar == SumSeq(acc)
             lastVal == 100 - sumSoFar
             minLast == bounds[idx + 1][1]
             maxLast == bounds[idx + 1][2]
         IN IF lastVal >= minLast /\ lastVal <= maxLast
              THEN << Append(acc, lastVal) >>
              ELSE << >>
    ELSE GenLoop(bounds, idx, acc, bounds[idx + 1][1], bounds[idx + 1][2] - 1)

\* the sequence of arrays the generator yields; idx is counted from 0 as in
\* the code, so bounds[idx] of the code is bounds[idx + 1] here
generateCombinations(bounds, idx, acc) ==
  IF idx = Len(bounds) - 1
    THEN LET sumSoFar == SumSeq(acc)
             lastVal == 100 - sumSoFar
             minLast == bounds[idx + 1][1]
             maxLast == bounds[idx + 1][2]
         IN IF lastVal >= minLast /\ lastVal <= maxLast
              THEN << Append(acc, lastVal) >>
              ELSE << >>
    ELSE GenLoop(bounds, idx, acc, bounds[idx + 1][1], bounds[idx + 1][2])

\* GenBody skipping v also when the remaining maxima reach 100 exactly
GenBody_overPruned(bounds, idx, acc, v) ==
  LET sumSoFar == SumSeq(acc) + v
      remainingMin == RemainingSum(bounds, idx, 1)
      remainingMax == RemainingSum(bounds, idx, 2)
  IN IF sumSoFar > 100 THEN << >>
     ELSE IF sumSoFar + remainingMax <= 100 THEN << >>
     ELSE IF sumSoFar + remainingMin > 100 THEN << >>
     ELSE generateCombinations(bounds, idx + 1, Append(acc, v))

\* what the iteration of the for loop with value v yields.  The loop leaves
\* through break at the first v whose sumSoFar exceeds 100; sumSoFar grows
\* with v, so every later v has sumSoFar > 100 too, and the iterations the
\* break cuts off are exactly those that yield nothing here.  The two
\* continue statements skip v.
GenBody(bounds, idx, acc, v) ==
  LET sumSoFar == SumSeq(acc) + v
      remainingMin == RemainingSum(bounds, idx, 1)
      remainingMax == RemainingSum(bounds, idx, 2)
  IN IF sumSoFar > 100 THEN << >>
     ELSE IF sumSoFar + remainingMax < 100 THEN << >>
     ELSE IF sumSoFar + remainingMin > 100 THEN << >>
     ELSE generateCombinations(bounds, idx + 1, Append(acc, v))

\* GenLoop running from the maximum down
GenLoop_descending(bounds, idx, acc, lo, hi) ==
  IF lo > hi THEN << >>
  ELSE IF lo = hi THEN GenBody(bounds, idx, acc, lo)
  ELSE LET mid == (lo + hi) \div 2
       IN GenLoop(bounds, idx, acc, mid + step, hi) \o GenLoop(bounds, idx, acc, lo, mid)

\* the iterations v = lo, lo + step, .., hi of the for loop, in this order
\* (the range is halved so that the evaluation does not nest per iteration)
GenLoop(bounds, idx, acc, lo, hi) ==
  IF lo > hi THEN << >>
  ELSE IF lo = hi THEN GenBody(bounds, idx, acc, lo)
  ELSE LET mid == (lo + hi) \div 2
       IN GenLoop(bounds, idx, acc, lo, mid) \o GenLoop(bounds, idx, acc, mid + step, hi)

\* ------------------------------------------------------------------------
\* The naive generator of the older handler (src/app.js lines 1684-1698):
\* the full cross product, filtered on sum === 100
\* ------------------------------------------------------------------------

RECURSIVE helper(_, _, _)
RECURSIVE HelperLoop(_, _, _, _, _)
helper(bounds, index, combo) ==
  IF index = Len(bounds)
    THEN IF SumSeq(combo) = 100 THEN << combo >> ELSE << >>
    ELSE HelperLoop(bounds, index, combo, bounds[index + 1][1], bounds[index + 1][2])

\* the iterations i = lo, .., hi of the for loop of helper, in this order
HelperLoop(bounds, index, combo, lo, hi) ==
  IF lo > hi THEN << >>
  ELSE IF lo = hi THEN helper(bounds, index + 1, Append(combo, lo))
  ELSE LET mid == (lo + hi) \div 2
       IN HelperLoop(bounds, index, combo, lo, mid)
            \o HelperLoop(bounds, index, combo, mid + step, hi)

naiveGenerateCombinations(bounds) == helper(bounds, 0, << >>)

\* ------------------------------------------------------------------------
\* Evaluation of one blend (src/app.js lines 1204-1225)
\* ------------------------------------------------------------------------

\* sum over the coals of f[i] * pct[i]
RECURSIVE WeightedSum(_, _, _)
WeightedSum(f, pct, n) ==
  IF n = 0 THEN 0 ELSE WeightedSum(f, pct, n - 1) + pct[n] * f[n]

\* blended oxides in hundredths: the weights x / 100 applied to the oxide
\* values, summed over the coals
BlendedOxides(oxVals, blend) ==
  [oi \in 1..9 |-> WeightedSum([idx \in 1..Len(blend) |-> oxVals[idx][oi]], blend, Len(blend))]

\* EvaluateBlend with totalGcv and totalCost taken from each other's array
EvaluateBlend_swapped(blend, oxVals, costs, gcvs) ==
  LET blendedOxides == BlendedOxides(oxVals, blend)
  IN [blend |-> blend,
      predicted_aft |-> calculateAFT(blendedOxides),
      cost |-> WeightedSum(gcvs, blend, Len(blend)),
      gcv |-> WeightedSum(costs, blend, Len(blend)),
      blended_oxides |-> blendedOxides]

\* the object pushed onto validBlends
EvaluateBlend(blend, oxVals, costs, gcvs) ==
  LET blendedOxides == BlendedOxides(oxVals, blend)
  IN [blend |-> blend,
      predicted_aft |-> calculateAFT(blendedOxides),
      cost |-> WeightedSum(costs, blend, Len(blend)),
      gcv |-> WeightedSum(gcvs, blend, Len(blend)),
      blended_oxides |-> blendedOxides]

\* ------------------------------------------------------------------------
\* Exact comparison of balanced scores.  A score aftNorm + costNorm is kept
\* as the two fractions aftN / aftD and costN / costD; within one request
\* every score has the same two denominators.  Products exceed 32 bits, so
\* they are formed as three digits <<d2, d1, d0>> in base 32768 (d2 signed),
\* for factors below 2^29 in absolute value.
\* ------------------------------------------------------------------------

WNorm(t2, t1, t0) ==
  LET c0 == t0 \div 32768
      u1 == t1 + c0
  IN << t2 + (u1 \div 32768), u1 % 32768, t0 % 32768 >>

WMul(x, y) ==
  LET xh == x \div 32768  xl == x % 32768
      yh == y \div 32768  yl == y % 32768
  IN WNorm(xh * yh, xh * yl + xl * yh, xl * yl)

WAdd(a, b) == WNorm(a[1] + b[1], a[2] + b[2], a[3] + b[3])

WSign(w) == IF w[1] < 0 THEN -1 ELSE IF w = <<0, 0, 0>> THEN 0 ELSE 1

\* the sign of s - t for two scores of one request
ScoreCmp(s, t) ==
  WSign(WAdd(WMul(s.aftN - t.aftN, s.costD), WMul(s.costN - t.costN, s.aftD)))

\* ------------------------------------------------------------------------
\* Array helpers of the selection (src/app.js lines 1233-1257)
\* ------------------------------------------------------------------------

\* Math.max and Math.min of the elements lo..hi of an array of numbers (the
\* range is halved so that the evaluation does not nest per element)
RECURSIVE MaxIn(_, _, _)
MaxIn(arr, lo, hi) ==
  IF lo = hi THEN arr[lo]
  ELSE LET mid == (lo + hi) \div 2
       IN Max2(MaxIn(arr, lo, mid), MaxIn(arr, mid + 1, hi))
RECURSIVE MinIn(_, _, _)
MinIn(arr, lo, hi) ==
  IF lo = hi THEN arr[lo]
  ELSE LET mid == (lo + hi) \div 2
       IN Min2(MinIn(arr, lo, mid), MinIn(arr, mid + 1, hi))

\* Math.max(...arr), Math.min(...arr) of a non-empty array of numbers
MathMax(arr) == MaxIn(arr, 1, Len(arr))
MathMin(arr) == MinIn(arr, 1, Len(arr))

\* Math.max(...blendScores)
RECURSIVE ScoreMaxIn(_, _, _)
ScoreMaxIn(arr, lo, hi) ==
  IF lo = hi THEN arr[lo]
  ELSE LET mid == (lo + hi) \div 2
           l == ScoreMaxIn(arr, lo, mid)
           r == ScoreMaxIn(arr, mid + 1, hi)
       IN IF ScoreCmp(r, l) > 0 THEN r ELSE l
ScoreMax(arr) == ScoreMaxIn(arr, 1, Len(arr))

\* lastIndexOf in place of indexOf
IndexOf_last(arr, x) ==
  IF \E i \in 1..Len(arr) : arr[i] = x
    THEN (CHOOSE i \in 1..Len(arr) : arr[i] = x /\ \A j \in (i + 1)..Len(arr) : arr[j] # x) - 1
    ELSE -1

\* arr.indexOf(x): the first position (from 0) holding x, -1 when none
IndexOf(arr, x) ==
  IF \E i \in 1..Len(arr) : arr[i] = x
    THEN (CHOOSE i \in 1..Len(arr) : arr[i] = x /\ \A j \in 1..(i - 1) : arr[j] # x) - 1
    ELSE -1

\* blendScores.indexOf(x), equality being equality of the numbers
ScoreIndexOf(arr, x) ==
  IF \E i \in 1..Len(arr) : ScoreCmp(arr[i], x) = 0
    THEN (CHOOSE i \in 1..Len(arr) :
            ScoreCmp(arr[i], x) = 0 /\ \A j \in 1..(i - 1) : ScoreCmp(arr[j], x) # 0) - 1
    ELSE -1

\* BlendScore with costNorm growing with the cost
BlendScore_costInverted(b, aMin, aMax, cMin, cMax) ==
  [aftN |-> IF aMax = aMin THEN 1 ELSE b.predicted_aft - aMin,
   aftD |-> IF aMax = aMin THEN 2 ELSE aMax - aMin,
   costN |-> IF cMax = cMin THEN 1 ELSE b.cost - cMin,
   costD |-> IF cMax = cMin THEN 2 ELSE cMax - cMin]

\* BlendScore without the guards against equal maximum and minimum, as in
\* the older handler (src/app.js lines 1056-1060)
BlendScore_unguarded(b, aMin, aMax, cMin, cMax) ==
  [aftN |-> b.predicted_aft - aMin,
   aftD |-> aMax - aMin,
   costN |-> cMax - b.cost,
   costD |-> cMax - cMin]

\* the score of one candidate: both norms as fractions, 1/2 on an axis
\* whose maximum equals its minimum
BlendScore(b, aMin, aMax, cMin, cMax) ==
  [aftN |-> IF aMax = aMin THEN 1 ELSE b.predicted_aft - aMin,
   aftD |-> IF aMax = aMin THEN 2 ELSE aMax - aMin,
   costN |-> IF cMax = cMin THEN 1 ELSE cMax - b.cost,
   costD |-> IF cMax = cMin THEN 2 ELSE cMax - cMin]

\* arr[i] for i counted from 0; undefined outside the array
NoBlend == [blend |-> << >>, predicted_aft |-> 0, cost |-> 0, gcv |-> 0, blended_oxides |-> << >>]
At(arr, i) == IF i >= 0 /\ i < Len(arr) THEN arr[i + 1] ELSE NoBlend

\* ------------------------------------------------------------------------
\* Current blend and individual AFTs (src/app.js lines 1259-1277)
\* ------------------------------------------------------------------------

\* a * b and a + b of two numbers of which either may be infinite or NaN
JsMul(a, b) ==
  CASE a.t = "nan" \/ b.t = "nan" -> NaN
    [] a.t = "num" /\ b.t = "num" -> Num(a.v * b.v)
    [] (a.t = "num" /\ a.v = 0) \/ (b.t = "num" /\ b.v = 0) -> NaN
    [] OTHER -> [t |-> "inf",
                 v |-> (IF a.v < 0 THEN -1 ELSE 1) * (IF b.v < 0 THEN -1 ELSE 1)]
JsAdd(a, b) ==
  CASE a.t = "nan" \/ b.t = "nan" -> NaN
    [] a.t = "num" /\ b.t = "num" -> Num(a.v + b.v)
    [] a.t = "inf" /\ b.t = "inf" -> IF a.v = b.v THEN a ELSE NaN
    [] a.t = "inf" -> a
    [] OTHER -> b

\* CurrentWeightOf with the current value brought within the coal's bounds
CurrentWeightOf_clamped(b) ==
  LET n == ToNumber(b.current)
  IN IF IsFinite(n)
       THEN Max2(MinMaxBoundsOf(b)[1], Min2(MinMaxBoundsOf(b)[2], n.v))
       ELSE 0

\* currentWeights[idx] in hundredths: n / 100 for a finite Number(b.current),
\* else 0
CurrentWeightOf(b) == LET n == ToNumber(b.current) IN IF IsFinite(n) THEN n.v ELSE 0

\* Number(b.current) || 0: NaN and 0 give 0, every other number itself
CurrentOf(b) == LET n == ToNumber(b.current) IN IF n.t = "nan" THEN Num(0) ELSE n

\* blends.reduce((sum, b, i) => sum + (Number(b.current) || 0) * (f[i] || 0), 0) / 100
\* in hundredths
RECURSIVE CurrentSum(_, _, _)
CurrentSum(items, f, n) ==
  IF n = 0 THEN Num(0)
  ELSE JsAdd(CurrentSum(items, f, n - 1), JsMul(CurrentOf(items[n]), Num(f[n])))

\* the value of an absent current_blend
NoCurrentBlend == [blend |-> << >>, predicted_aft |-> 0, gcv |-> Num(0), cost |-> Num(0)]

CurrentBlendOf(items, oxVals, costs, gcvs) ==
  LET currentWeights == [i \in 1..Len(items) |-> CurrentWeightOf(items[i])]
      currentBlendedOxides == BlendedOxides(oxVals, currentWeights)
  IN [blend |-> [i \in 1..Len(items) |-> CurrentOf(items[i])],
      predicted_aft |-> calculateAFT(currentBlendedOxides),
      gcv |-> CurrentSum(items, gcvs, Len(items)),
      cost |-> CurrentSum(items, costs, Len(items))]

\* `coal-${i}`, i counted from 0
DefaultCoalName(i) == <<"coal-0", "coal-1", "coal-2", "coal-3", "coal-4", "coal-5">>[i + 1]

\* IndividualCoalAFTs computing every AFT from the first coal's vector
IndividualCoalAFTs_firstCoal(names, oxVals) ==
  [i \in 1..Len(oxVals) |->
     [coal |-> IF names[i] = "" THEN DefaultCoalName(i - 1) ELSE names[i],
      predicted_aft |-> calculateAFT([k \in 1..9 |-> 100 * oxVals[1][k]])]]

\* one entry per coal: its name, or `coal-${i}` when it has none, and the
\* AFT of its own oxide vector
IndividualCoalAFTs(names, oxVals) ==
  [i \in 1..Len(oxVals) |->
     [coal |-> IF names[i] = "" THEN DefaultCoalName(i - 1) ELSE names[i],
      predicted_aft |-> calculateAFT([k \in 1..9 |-> 100 * oxVals[i][k]])]]

\* ------------------------------------------------------------------------
\* State of one /optimize request
\* ------------------------------------------------------------------------

VARIABLES
  pc,               \* the handler's position
  blends,           \* req.body.blends
  coalNames, oxideValues, minMaxBounds, costsPerTon, gcvValue,
  validBlends,
  aftMin, aftMax, costMin, costMax,
  blendScores,
  indexOfBestAft, indexOfCheapest, indexOfBalanced,
  response,         \* what res.status(..).json(..) sent
  genPc, genBounds, genPruned, genNaive,
                    \* the two generators run side by side on one bounds list
  aftPc, aftValues, aftResult,
                    \* one call of calculateAFT: its argument and its result
  cPc, cBlends, frames, cResponse,
                    \* two requests in flight: position, body and response of
                    \* each, and the activation records of the invocations
  dPc, dBounds, dStack, dOut, dStatus,
                    \* one run of the generator, iteration by iteration: the
                    \* bounds, the activation records of generateCombinations,
                    \* the blends yielded so far, the status answered
  nPc, nArg, nRaw, nResult,
                    \* one call of normalizeCoalDoc: the document as passed,
                    \* the document after the call, and the value returned
  user,             \* the user document stored in the database
  now,              \* the time, in hours
  session,          \* req.session.userId is set
  uPc, uCall, uPend, uRes,
                    \* two requests of the user in flight: position, the
                    \* request, what its handler holds across an await, and
                    \* the response sent
  granted,          \* the number of optimization results sent so far
  exhausted         \* the stored trialsLeft has been 0

locals == <<coalNames, oxideValues, minMaxBounds, costsPerTon, gcvValue>>
stats == <<aftMin, aftMax, costMin, costMax, blendScores,
           indexOfBestAft, indexOfCheapest, indexOfBalanced>>
gen == <<genPc, genBounds, genPruned, genNaive>>
handler == <<pc, blends, locals, validBlends, stats, response>>
aft == <<aftPc, aftValues, aftResult>>
conc == <<cPc, cBlends, frames, cResponse>>
dfs == <<dPc, dBounds, dStack, dOut, dStatus>>
norm == <<nPc, nArg, nRaw, nResult>>
usr == <<user, now, session, uPc, uCall, uPend, uRes, granted, exhausted>>
vars == <<handler, gen, aft, conc, dfs, norm, usr>>

NoResponse ==
  [status |-> 0, error |-> "", message |-> "",
   best_aft_blend |-> NoBlend, cheapest_blend |-> NoBlend, balanced_blend |-> NoBlend,
   current_blend |-> NoCurrentBlend, individual_coal_afts |-> << >>]

\* the value null where a document or a returned object is expected
NoDoc == [isDoc |-> FALSE, fields |-> << >>, hasProps |-> FALSE, properties |-> << >>]

\* the user document, its requests and their responses (trial and lock
\* bookkeeping): times are in hours
\* 24 * 3600 * 1000 ms
LockHours == 24
\* the clock of the model advances by one lock period
TickHours == LockHours
\* the latest time of the model
MaxTime == 24
\* trialsLeft of the user at the start
MaxTrials == 2
\* lockedUntil: null
NoDate == -1
\* lastIP: null
NoIP == "none"

\* the request of an idle connection
NoCall == [kind |-> "none", body |-> BodyMissing, creds |-> "none", late |-> FALSE]
\* no response sent yet
NoRes ==
  [status |-> 0, message |-> "", result |-> FALSE, ran |-> FALSE,
   carries |-> FALSE, trialsLeft |-> 0, lockedUntil |-> NoDate]
\* nothing held across an await
NoPend ==
  [read |-> [trialsLeft |-> 0, lockedUntil |-> NoDate, lastIP |-> NoIP, ipHistory |-> 0],
   doc |-> [trialsLeft |-> 0, lockedUntil |-> NoDate, lastIP |-> NoIP, ipHistory |-> 0],
   destroy |-> FALSE, create |-> FALSE, res |-> NoRes]

\* the two requests in flight
Requests == {1, 2}

\* an activation record before the invocation has assigned its locals
NoFrame ==
  [status |-> 0, bestAftBlend |-> NoBlend, cheapestBlend |-> NoBlend, balancedBlend |-> NoBlend,
   currentBlend |-> NoCurrentBlend, individualCoalAFTs |-> << >>]

\* the locals of a handler invocation before it has assigned them
FreshLocals ==
  /\ coalNames = << >> /\ oxideValues = << >> /\ minMaxBounds = << >>
  /\ costsPerTon = << >> /\ gcvValue = << >>
  /\ validBlends = << >>
  /\ aftMin = 0 /\ aftMax = 0 /\ costMin = 0 /\ costMax = 0
  /\ blendScores = << >>
  /\ indexOfBestAft = -1 /\ indexOfCheapest = -1 /\ indexOfBalanced = -1

Init ==
  /\ pc = "idle"
  /\ blends = BodyMissing
  /\ FreshLocals
  /\ response = NoResponse
  /\ genPc = "idle" /\ genBounds = << >> /\ genPruned = << >> /\ genNaive = << >>
  /\ aftPc = "idle" /\ aftValues = << >> /\ aftResult = 0
  /\ cPc = [r \in Requests |-> "idle"]
  /\ cBlends = [r \in Requests |-> BodyMissing]
  /\ frames = [r \in Requests |-> NoFrame]
  /\ cResponse = [r \in Requests |-> NoResponse]
  /\ dPc = "idle" /\ dBounds = << >> /\ dStack = << >> /\ dOut = << >> /\ dStatus = 0
  /\ nPc = "idle" /\ nArg = NoDoc /\ nRaw = NoDoc /\ nResult = NoDoc
  /\ user = [trialsLeft |-> MaxTrials, lockedUntil |-> NoDate, lastIP |-> NoIP, ipHistory |-> 0]
  /\ now = 0
  /\ session = FALSE
  /\ uPc = [r \in Requests |-> "idle"]
  /\ uCall = [r \in Requests |-> NoCall]
  /\ uPend = [r \in Requests |-> NoPend]
  /\ uRes = [r \in Requests |-> NoRes]
  /\ granted = 0
  /\ exhausted = FALSE

\* InvalidBlends without the test blends.length === 0
InvalidBlends_noEmpty(b) == b.t # "array"

\* !blends || !Array.isArray(blends) || blends.length === 0 (line 1132)
InvalidBlends(b) == b.t # "array" \/ Len(b.items) = 0

\* a client posts a request
Receive ==
  /\ pc = "idle"
  /\ \E b \in Bodies : blends' = b
  /\ pc' = "check"
  /\ UNCHANGED <<locals, validBlends, stats, response, gen, aft, conc, dfs, norm, usr>>

\* lines 1131-1134
CheckInput ==
  /\ pc = "check"
  /\ IF InvalidBlends(blends)
       THEN /\ response' = [NoResponse EXCEPT !.status = 400, !.error = "Invalid blend data"]
            /\ pc' = "done"
       ELSE /\ pc' = "sanitize"
            /\ UNCHANGED response
  /\ UNCHANGED <<blends, locals, validBlends, stats, gen, aft, conc, dfs, norm, usr>>

\* lines 1137-1169; reading a field of a null entry throws, which the
\* catch of lines 1295-1298 answers with 500
Sanitize ==
  /\ pc = "sanitize"
  /\ IF \E i \in 1..Len(blends.items) : blends.items[i].isNull
       THEN /\ response' = [NoResponse EXCEPT !.status = 500, !.error = "Optimization failed"]
            /\ pc' = "done"
            /\ UNCHANGED locals
       ELSE /\ coalNames' = [i \in 1..Len(blends.items) |-> CoalNameOf(blends.items[i])]
            /\ oxideValues' = [i \in 1..Len(blends.items) |-> OxideValuesOf(blends.items[i])]
            /\ minMaxBounds' = [i \in 1..Len(blends.items) |-> MinMaxBoundsOf(blends.items[i])]
            /\ costsPerTon' = [i \in 1..Len(blends.items) |-> CostPerTonOf(blends.items[i])]
            /\ gcvValue' = [i \in 1..Len(blends.items) |-> GcvValueOf(blends.items[i])]
            /\ pc' = "enumerate"
            /\ UNCHANGED response
  /\ UNCHANGED <<blends, validBlends, stats, gen, aft, conc, dfs, norm, usr>>

\* lines 1203-1226: every combination the generator yields is evaluated and
\* pushed, in the order yielded
Enumerate ==
  /\ pc = "enumerate"
  /\ \E combos \in {generateCombinations(minMaxBounds, 0, << >>)} :
        validBlends' = [i \in 1..Len(combos) |->
                          EvaluateBlend(combos[i], oxideValues, costsPerTon, gcvValue)]
  /\ pc' = "evaluated"
  /\ UNCHANGED <<blends, locals, stats, response, gen, aft, conc, dfs, norm, usr>>

\* lines 1228-1230
NoValidBlends ==
  /\ pc = "evaluated"
  /\ Len(validBlends) = 0
  /\ response' = [NoResponse EXCEPT !.status = 404, !.message = "No valid blends found"]
  /\ pc' = "done"
  /\ UNCHANGED <<blends, locals, validBlends, stats, gen, aft, conc, dfs, norm, usr>>

\* lines 1233-1257
Select ==
  /\ pc = "evaluated"
  /\ Len(validBlends) # 0
  /\ \E aftVals \in {[i \in 1..Len(validBlends) |-> validBlends[i].predicted_aft]},
        costVals \in {[i \in 1..Len(validBlends) |-> validBlends[i].cost]} :
      \E aMin \in {MathMin(aftVals)}, aMax \in {MathMax(aftVals)},
         cMin \in {MathMin(costVals)}, cMax \in {MathMax(costVals)} :
        \E scores \in {[i \in 1..Len(validBlends) |->
                          BlendScore(validBlends[i], aMin, aMax, cMin, cMax)]} :
          /\ aftMin' = aMin /\ aftMax' = aMax /\ costMin' = cMin /\ costMax' = cMax
          /\ blendScores' = scores
          /\ indexOfBestAft' = IndexOf(aftVals, MathMax(aftVals))
          /\ indexOfCheapest' = IndexOf(costVals, MathMin(costVals))
          /\ indexOfBalanced' = ScoreIndexOf(scores, ScoreMax(scores))
  /\ pc' = "selected"
  /\ UNCHANGED <<blends, locals, validBlends, response, gen, aft, conc, dfs, norm, usr>>

\* lines 1255-1293
Respond ==
  /\ pc = "selected"
  /\ response' = [NoResponse EXCEPT
                    !.status = 200,
                    !.best_aft_blend = At(validBlends, indexOfBestAft),
                    !.cheapest_blend = At(validBlends, indexOfCheapest),
                    !.balanced_blend = At(validBlends, indexOfBalanced),
                    !.current_blend = CurrentBlendOf(blends.items, oxideValues, costsPerTon, gcvValue),
                    !.individual_coal_afts = IndividualCoalAFTs(coalNames, oxideValues)]
  /\ pc' = "done"
  /\ UNCHANGED <<blends, locals, validBlends, stats, gen, aft, conc, dfs, norm, usr>>

Next ==
  \/ Receive
  \/ CheckInput
  \/ Sanitize
  \/ Enumerate
  \/ NoValidBlends
  \/ Select
  \/ Respond

Spec == Init /\ [][Next]_vars

\* ------------------------------------------------------------------------
\* The two generators side by side, on bounds lists as the sanitisation
\* produces them (integers, 0 <= min <= max <= 100)
\* ------------------------------------------------------------------------

GenBoundChoices ==
  { <<0, 100>>, <<24, 26>>, <<33, 34>>, <<48, 52>>, <<60, 60>>, <<25, 25>> }

\* the number of vectors in the cross product of the ranges
RECURSIVE CrossSize(_, _)
CrossSize(bounds, n) ==
  IF n = 0 THEN 1
  ELSE LET rest == CrossSize(bounds, n - 1)
       IN IF rest > MaxCross THEN rest
          ELSE rest * (bounds[n][2] - bounds[n][1] + 1)

GenLists ==
  { b \in UNION { [1..n -> GenBoundChoices] : n \in 1..MaxCoals } :
      CrossSize(b, Len(b)) <= MaxCross }

GenPick ==
  /\ genPc = "idle"
  /\ \E b \in GenLists : genBounds' = b
  /\ genPc' = "picked"
  /\ UNCHANGED <<genPruned, genNaive, handler, aft, conc, dfs, norm, usr>>

GenPruned ==
  /\ genPc = "picked"
  /\ genPruned' = generateCombinations(genBounds, 0, << >>)
  /\ genPc' = "pruned"
  /\ UNCHANGED <<genBounds, genNaive, handler, aft, conc, dfs, norm, usr>>

GenNaive ==
  /\ genPc = "pruned"
  /\ genNaive' = naiveGenerateCombinations(genBounds)
  /\ genPc' = "compared"
  /\ UNCHANGED <<genBounds, genPruned, handler, aft, conc, dfs, norm, usr>>

GenNext == GenPick \/ GenPruned \/ GenNaive

SpecGen == Init /\ [][GenNext]_vars

\* ------------------------------------------------------------------------
\* calculateAFT on its own, on oxide vectors (in hundredths) whose
\* SiO2 + Al2O3 lies below, at, between and above the two thresholds
\* ------------------------------------------------------------------------

AftInputs ==
  { <<si, al, fe, 500, 200, na, 100, 200, ti>> :
      si \in {3000, 4499, 4500, 4501, 5500, 6499, 6500, 7000},
      al \in {0, 1000, 2000}, fe \in {0, 800}, na \in {0, 100}, ti \in {0, 100} }

AftPick ==
  /\ aftPc = "idle"
  /\ \E v \in AftInputs : aftValues' = v
  /\ aftPc' = "picked"
  /\ UNCHANGED <<aftResult, handler, gen, conc, dfs, norm, usr>>

AftCall ==
  /\ aftPc = "picked"
  /\ aftResult' = calculateAFT(aftValues)
  /\ aftPc' = "returned"
  /\ UNCHANGED <<aftValues, handler, gen, conc, dfs, norm, usr>>

AftNext == AftPick \/ AftCall

SpecAft == Init /\ [][AftNext]_vars

\* ------------------------------------------------------------------------
\* Two /optimize requests in flight.  A handler invocation runs without
\* interruption from its start to its first await; on the successful path
\* that is `await user.save()` (line 1284), after every local of lines
\* 1131-1277 has been assigned and before the response is built from them
\* (lines 1287-1293).  The other request's handler may run during the await.
\* ------------------------------------------------------------------------

\* the activation record holding a handler invocation's const locals: each
\* invocation has its own
FrameOf_shared(r) == 1
FrameOf(r) == r

\* the outcome of lines 1131-1277 on one request body: the status the
\* handler is heading for and, for 200, the five locals the response is
\* built from
SelectedLocals(items, valid, names, ox, costs, gcvs) ==
  LET aftVals == [i \in 1..Len(valid) |-> valid[i].predicted_aft]
      costVals == [i \in 1..Len(valid) |-> valid[i].cost]
      aMin == MathMin(aftVals)
      aMax == MathMax(aftVals)
      cMin == MathMin(costVals)
      cMax == MathMax(costVals)
      scores == [i \in 1..Len(valid) |-> BlendScore(valid[i], aMin, aMax, cMin, cMax)]
  IN [status |-> 200,
      bestAftBlend |-> At(valid, IndexOf(aftVals, MathMax(aftVals))),
      cheapestBlend |-> At(valid, IndexOf(costVals, MathMin(costVals))),
      balancedBlend |-> At(valid, ScoreIndexOf(scores, ScoreMax(scores))),
      currentBlend |-> CurrentBlendOf(items, ox, costs, gcvs),
      individualCoalAFTs |-> IndividualCoalAFTs(names, ox)]

OptimizeLocals(b) ==
  IF InvalidBlends(b) THEN [NoFrame EXCEPT !.status = 400]
  ELSE IF \E i \in 1..Len(b.items) : b.items[i].isNull THEN [NoFrame EXCEPT !.status = 500]
  ELSE LET n == Len(b.items)
           names == [i \in 1..n |-> CoalNameOf(b.items[i])]
           ox == [i \in 1..n |-> OxideValuesOf(b.items[i])]
           bounds == [i \in 1..n |-> MinMaxBoundsOf(b.items[i])]
           costs == [i \in 1..n |-> CostPerTonOf(b.items[i])]
           gcvs == [i \in 1..n |-> GcvValueOf(b.items[i])]
           combos == generateCombinations(bounds, 0, << >>)
           valid == [i \in 1..Len(combos) |-> EvaluateBlend(combos[i], ox, costs, gcvs)]
       IN IF Len(valid) = 0 THEN [NoFrame EXCEPT !.status = 404]
          ELSE SelectedLocals(b.items, valid, names, ox, costs, gcvs)

\* res.status(..).json(..) for an outcome
ResponseOf(f) ==
  CASE f.status = 400 -> [NoResponse EXCEPT !.status = 400, !.error = "Invalid blend data"]
    [] f.status = 500 -> [NoResponse EXCEPT !.status = 500, !.error = "Optimization failed"]
    [] f.status = 404 -> [NoResponse EXCEPT !.status = 404, !.message = "No valid blends found"]
    [] OTHER -> [NoResponse EXCEPT
                   !.status = 200,
                   !.best_aft_blend = f.bestAftBlend,
                   !.cheapest_blend = f.cheapestBlend,
                   !.balanced_blend = f.balancedBlend,
                   !.current_blend = f.currentBlend,
                   !.individual_coal_afts = f.individualCoalAFTs]

\* the request bodies of the two requests: the missing body and the arrays
\* of up to two of the entries of A, B and C that carry numeric bounds
\* [0,100] or [60,60]
ConcBodies ==
  {BodyMissing} \cup
  { BodyArray(s) : s \in { t \in BlendsFrom({"A", "B", "C"}, 2) :
        \A i \in 1..Len(t) :
          /\ t[i].hasProps /\ t[i].min.t = "num" /\ t[i].max.t = "num"
          /\ t[i].min.v \in {0, 600} } }

\* request r arrives and has passed requireAuth
CArrive(r) ==
  /\ cPc[r] = "idle"
  /\ \E b \in ConcBodies : cBlends' = [cBlends EXCEPT ![r] = b]
  /\ cPc' = [cPc EXCEPT ![r] = "ready"]
  /\ UNCHANGED <<frames, cResponse, handler, gen, aft, dfs, norm, usr>>

\* lines 1131-1284 up to the await: the 400, 404 and 500 answers are sent
\* at once; otherwise the locals are assigned and the handler awaits
\* user.save()
CRun(r) ==
  /\ cPc[r] = "ready"
  /\ \E f \in {OptimizeLocals(cBlends[r])} :
       IF f.status = 200
         THEN /\ frames' = [frames EXCEPT ![FrameOf(r)] = f]
              /\ cPc' = [cPc EXCEPT ![r] = "saving"]
              /\ UNCHANGED cResponse
         ELSE /\ cResponse' = [cResponse EXCEPT ![r] = ResponseOf(f)]
              /\ cPc' = [cPc EXCEPT ![r] = "done"]
              /\ UNCHANGED frames
  /\ UNCHANGED <<cBlends, handler, gen, aft, dfs, norm, usr>>

\* lines 1287-1293: the save has completed and the response is built from
\* the invocation's locals
CRespond(r) ==
  /\ cPc[r] = "saving"
  /\ cResponse' = [cResponse EXCEPT ![r] = ResponseOf(frames[FrameOf(r)])]
  /\ cPc' = [cPc EXCEPT ![r] = "done"]
  /\ UNCHANGED <<cBlends, frames, handler, gen, aft, dfs, norm, usr>>

ConcNext == \E r \in Requests : CArrive(r) \/ CRun(r) \/ CRespond(r)

SpecConc == Init /\ [][ConcNext]_vars

\* ------------------------------------------------------------------------
\* Properties
\* ------------------------------------------------------------------------

\* the handler has the selection in hand
Selected == pc = "selected" \/ (pc = "done" /\ response.status = 200)

\* a < b in the lexicographic order of two arrays of one length
LexLess(a, b) ==
  \E k \in 1..Len(a) : a[k] < b[k] /\ \A j \in 1..(k - 1) : a[j] = b[j]

\* the bounds admit no integer vector summing to 100: with min <= max for
\* every coal, that is the minima exceeding 100 or the maxima staying below
Infeasible(bounds) ==
  \/ SumSeq([k \in 1..Len(bounds) |-> bounds[k][1]]) > 100
  \/ SumSeq([k \in 1..Len(bounds) |-> bounds[k][2]]) < 100

\* an entry that is an object but lacks required fields: no properties
\* object, an oxide under none of its three keys, or no min or no max
MissingFields(b) ==
  /\ ~b.isNull
  /\ \/ ~b.hasProps
     \/ \E k \in 1..9 :
          /\ b.properties[oxideCols[k]].t \in {"undefined", "null"}
          /\ b.properties[ToUpperCase(oxideCols[k])].t \in {"undefined", "null"}
          /\ b.properties[ToLowerCase(oxideCols[k])].t \in {"undefined", "null"}
     \/ b.min.t = "undefined"
     \/ b.max.t = "undefined"

\* the request carries an array of objects of which one lacks fields
Malformed ==
  /\ pc # "idle"
  /\ blends.t = "array"
  /\ \E i \in 1..Len(blends.items) : MissingFields(blends.items[i])

\* C1: every combination the generator yields in the handler, hence every
\* entry of validBlends and each of the three selected blends of a 200
\* response, has percentages summing to exactly 100.
C1_SumIs100 ==
  /\ \A i \in 1..Len(validBlends) : SumSeq(validBlends[i].blend) = 100
  /\ response.status = 200 =>
       /\ SumSeq(response.best_aft_blend.blend) = 100
       /\ SumSeq(response.cheapest_blend.blend) = 100
       /\ SumSeq(response.balanced_blend.blend) = 100

\* a 200 response for three coals chosen among several candidates
C1_Witness ==
  /\ pc = "done" /\ response.status = 200
  /\ Len(minMaxBounds) = 3 /\ Len(validBlends) > 1

\* C2: every percentage of every combination, the forced last one
\* included, lies within the bounds of its coal handed to the generator,
\* and these bounds are the caller's min and max when those are integers
\* with 0 <= min <= max <= 100.
C2_WithinBounds ==
  /\ \A i \in 1..Len(validBlends) :
       /\ Len(validBlends[i].blend) = Len(minMaxBounds)
       /\ \A k \in 1..Len(minMaxBounds) :
            /\ minMaxBounds[k][1] <= validBlends[i].blend[k]
            /\ validBlends[i].blend[k] <= minMaxBounds[k][2]
  /\ \A k \in 1..Len(minMaxBounds) :
       LET b == blends.items[k]
       IN (/\ b.min.t = "num" /\ b.max.t = "num"
           /\ b.min.v % 10 = 0 /\ b.max.v % 10 = 0
           /\ 0 <= b.min.v /\ b.min.v <= b.max.v /\ b.max.v <= 1000)
          => minMaxBounds[k] = << b.min.v \div 10, b.max.v \div 10 >>

\* candidates of three coals whose last coal has a proper range of integer
\* bounds, the forced value taking both ends of it
C2_Witness ==
  /\ pc = "evaluated" /\ Len(minMaxBounds) = 3
  /\ blends.items[3].min = Num(330) /\ blends.items[3].max = Num(340)
  /\ \E i, j \in 1..Len(validBlends) :
       validBlends[i].blend[3] = 33 /\ validBlends[j].blend[3] = 34

\* C3: on every bounds list with 0 <= min <= max <= 100 the pruned
\* generator yields the same sequence as the naive cross-product generator
\* filtered on sum 100: every vector within the bounds summing to 100, once,
\* in the same order.
C3_PrunedEqualsNaive ==
  genPc = "compared" => genPruned = genNaive

\* both generators have run on three coals where a value of the first
\* coal's range starts no yielded combination and several are yielded
C3_Witness ==
  /\ genPc = "compared" /\ Len(genBounds) = 3 /\ Len(genPruned) > 1
  /\ genPruned = genNaive
  /\ \E v \in genBounds[1][1]..genBounds[1][2] :
       \A i \in 1..Len(genPruned) : genPruned[i][1] # v

\* C4: best_aft_blend is the first candidate with the maximal
\* predicted_aft, cheapest_blend the first candidate with the minimal cost;
\* for two coals both bounded [0,100], the first strictly cheaper,
\* cheapest_blend.blend is [100,0].
C4_FirstBestAndCheapest ==
  Selected =>
    LET n == Len(validBlends)
        best == indexOfBestAft + 1
        cheap == indexOfCheapest + 1
    IN /\ best \in 1..n /\ cheap \in 1..n
       /\ \A j \in 1..n : validBlends[j].predicted_aft <= validBlends[best].predicted_aft
       /\ \A j \in 1..(best - 1) :
            validBlends[j].predicted_aft < validBlends[best].predicted_aft
       /\ \A j \in 1..n : validBlends[j].cost >= validBlends[cheap].cost
       /\ \A j \in 1..(cheap - 1) : validBlends[j].cost > validBlends[cheap].cost
       /\ pc = "done" =>
            /\ response.best_aft_blend = validBlends[best]
            /\ response.cheapest_blend = validBlends[cheap]
            /\ (/\ minMaxBounds = << <<0, 100>>, <<0, 100>> >>
                /\ costsPerTon[1] < costsPerTon[2])
               => response.cheapest_blend.blend = <<100, 0>>

\* the scenario: coals A (cost 10) and B (cost 20), both [0,100]
C4_Witness ==
  /\ pc = "done" /\ response.status = 200
  /\ minMaxBounds = << <<0, 100>>, <<0, 100>> >>
  /\ costsPerTon = <<10, 20>>
  /\ response.cheapest_blend.blend = <<100, 0>>
  /\ indexOfCheapest = 100

\* C5: balanced_blend is the first candidate with the maximal score
\* aftNorm + costNorm, the norms being (aft - aftMin) / (aftMax - aftMin)
\* and (costMax - cost) / (costMax - costMin) against the minima and maxima
\* over all candidates (on an axis where these differ), each norm in [0,1].
C5_FirstBalanced ==
  Selected =>
    LET n == Len(validBlends)
        bal == indexOfBalanced + 1
    IN /\ bal \in 1..n /\ Len(blendScores) = n
       /\ \A j \in 1..n : ScoreCmp(blendScores[j], blendScores[bal]) <= 0
       /\ \A j \in 1..(bal - 1) : ScoreCmp(blendScores[j], blendScores[bal]) < 0
       /\ \A j \in 1..n :
            /\ aftMin <= validBlends[j].predicted_aft
            /\ validBlends[j].predicted_aft <= aftMax
            /\ costMin <= validBlends[j].cost /\ validBlends[j].cost <= costMax
       /\ \E j \in 1..n : validBlends[j].predicted_aft = aftMin
       /\ \E j \in 1..n : validBlends[j].predicted_aft = aftMax
       /\ \E j \in 1..n : validBlends[j].cost = costMin
       /\ \E j \in 1..n : validBlends[j].cost = costMax
       /\ \A j \in 1..n :
            /\ aftMax # aftMin =>
                 /\ blendScores[j].aftN = validBlends[j].predicted_aft - aftMin
                 /\ blendScores[j].aftD = aftMax - aftMin
            /\ costMax # costMin =>
                 /\ blendScores[j].costN = costMax - validBlends[j].cost
                 /\ blendScores[j].costD = costMax - costMin
            /\ 0 <= blendScores[j].aftN /\ blendScores[j].aftN <= blendScores[j].aftD
            /\ 0 <= blendScores[j].costN /\ blendScores[j].costN <= blendScores[j].costD
       /\ pc = "done" => response.balanced_blend = validBlends[bal]

\* a balanced blend that is neither the best-AFT nor the cheapest blend
C5_Witness ==
  /\ pc = "done" /\ response.status = 200
  /\ aftMax # aftMin /\ costMax # costMin
  /\ indexOfBalanced # indexOfBestAft /\ indexOfBalanced # indexOfCheapest

\* C6: when all candidates share the predicted AFT, aftNorm is exactly 1/2
\* for every candidate, likewise costNorm when all share the cost; no norm
\* has a zero denominator, so no score is NaN or infinite.
C6_DegenerateNormIsHalf ==
  Selected =>
    \A j \in 1..Len(blendScores) :
      /\ blendScores[j].aftD # 0 /\ blendScores[j].costD # 0
      /\ aftMax = aftMin => 2 * blendScores[j].aftN = blendScores[j].aftD
      /\ costMax = costMin => 2 * blendScores[j].costN = blendScores[j].costD

\* several candidates, all with the same predicted AFT
C6_Witness ==
  /\ pc = "selected" /\ Len(validBlends) > 1
  /\ aftMax = aftMin /\ costMax # costMin
  /\ \A j \in 1..Len(blendScores) : 2 * blendScores[j].aftN = blendScores[j].aftD

\* C7: the candidates are generated in strictly ascending lexicographic
\* order (coals in input order, ascending percentage at each position), so
\* the sequence of candidates, and with it the first-occurrence choice of
\* the three blends, is fixed by the input.
C7_LexicographicOrder ==
  \A i \in 1..(Len(validBlends) - 1) :
    LexLess(validBlends[i].blend, validBlends[i + 1].blend)

\* candidates of three coals among which the first and the second
\* percentage both vary
C7_Witness ==
  /\ pc = "evaluated" /\ Len(minMaxBounds) = 3
  /\ \E i, j \in 1..Len(validBlends) :
       validBlends[i].blend[1] # validBlends[j].blend[1]
  /\ \E i, j \in 1..Len(validBlends) :
       /\ validBlends[i].blend[1] = validBlends[j].blend[1]
       /\ validBlends[i].blend[2] # validBlends[j].blend[2]

\* C8: when the bounds admit no combination summing to 100 the generator
\* yields nothing and the handler answers 404 'No valid blends found',
\* never 500 and never a result.
C8_InfeasibleIs404 ==
  (pc \in {"evaluated", "selected", "done"} /\ minMaxBounds # << >>
     /\ Infeasible(minMaxBounds))
  => /\ validBlends = << >>
     /\ pc # "selected"
     /\ pc = "done" =>
          /\ response.status = 404
          /\ response.message = "No valid blends found"
          /\ response.best_aft_blend = NoBlend

\* two coals each with min = max = 60, answered 404
C8_Witness ==
  /\ pc = "done" /\ response.status = 404
  /\ minMaxBounds = << <<60, 60>>, <<60, 60>> >>

\* C9: a request whose blends is missing, not an array or an empty array is
\* answered 400 'Invalid blend data' with nothing sanitised, enumerated or
\* scored.
C9_InvalidIs400 ==
  (pc # "idle" /\ (blends.t # "array" \/ blends.items = << >>))
  => /\ pc \in {"check", "done"}
     /\ FreshLocals
     /\ pc = "done" =>
          /\ response.status = 400
          /\ response.error = "Invalid blend data"

\* an empty array answered 400
C9_Witness ==
  /\ pc = "done" /\ response.status = 400
  /\ blends.t = "array" /\ blends.items = << >>

\* C10 as stated: a request with a coal entry lacking required fields is
\* never enumerated and ends with an error response.
C10_MalformedFailsFast ==
  Malformed =>
    /\ pc \in {"check", "sanitize", "done"}
    /\ pc = "done" => response.status \in {400, 500}

\* C10 amended: only a missing, non-array or empty blends is answered 400,
\* and an array holding a null entry fails with 500, both before
\* enumeration.  An entry that is an object lacking fields is not rejected:
\* without properties its oxides and GCV are 0, an oxide under none of its
\* keys is 0, a missing cost is 0, a missing min is 0, a missing max is 100,
\* and the request is enumerated and answered 200 or 404.
C10_MalformedIsCoerced ==
  /\ (pc = "done" /\ response.status = 400) => InvalidBlends(blends)
  /\ (pc = "done" /\ response.status = 500) =>
       /\ \E i \in 1..Len(blends.items) : blends.items[i].isNull
       /\ validBlends = << >>
  /\ (Malformed /\ \A i \in 1..Len(blends.items) : ~blends.items[i].isNull) =>
       /\ pc = "done" => response.status \in {200, 404}
       /\ pc \in {"enumerate", "evaluated", "selected", "done"} =>
            \A i \in 1..Len(blends.items) :
              LET b == blends.items[i]
              IN /\ ~b.hasProps =>
                      /\ oxideValues[i] = [k \in 1..9 |-> 0]
                      /\ gcvValue[i] = 0
                 /\ \A k \in 1..9 :
                      (/\ b.properties[oxideCols[k]].t \in {"undefined", "null"}
                       /\ b.properties[ToUpperCase(oxideCols[k])].t \in {"undefined", "null"}
                       /\ b.properties[ToLowerCase(oxideCols[k])].t \in {"undefined", "null"})
                      => oxideValues[i][k] = 0
                 /\ b.cost.t = "undefined" => costsPerTon[i] = 0
                 /\ b.min.t = "undefined" => minMaxBounds[i][1] = 0
                 /\ b.max.t = "undefined" => minMaxBounds[i][2] = 100

\* a 200 response computed from an entry without properties, min and max
C10_Witness ==
  /\ pc = "done" /\ response.status = 200
  /\ \E i \in 1..Len(blends.items) :
       /\ ~blends.items[i].hasProps
       /\ blends.items[i].min.t = "undefined"
       /\ blends.items[i].max.t = "undefined"
       /\ minMaxBounds[i] = <<0, 100>>

\* the sanitisation has run on an array of objects
Sanitized ==
  /\ pc \in {"enumerate", "evaluated", "selected", "done"}
  /\ blends.t = "array"
  /\ \A i \in 1..Len(blends.items) : ~blends.items[i].isNull

\* the first of the values that is neither null nor undefined
RECURSIVE FirstPresent(_)
FirstPresent(xs) ==
  IF xs = << >> THEN Undefined
  ELSE IF Head(xs).t \in {"null", "undefined"} THEN FirstPresent(Tail(xs)) ELSE Head(xs)

\* the value a request entry carries for its k-th oxide, its GCV
RawOxide(b, k) ==
  IF b.hasProps
    THEN FirstPresent(<< b.properties[oxideCols[k]], b.properties[ToUpperCase(oxideCols[k])],
                         b.properties[ToLowerCase(oxideCols[k])] >>)
    ELSE Undefined
RawGcv(b) ==
  IF b.hasProps
    THEN FirstPresent(<< b.properties["GCV"], b.properties["Gcv"], b.properties["gcv"] >>)
    ELSE Undefined

\* absent, null, an empty string or not coercible to a finite number
NotANumber(x) == x.t \in {"undefined", "null", "emptystr", "badstr", "inf"}

\* some oxide, GCV or cost of the request is such a value
SomeCoerced ==
  \E i \in 1..Len(blends.items) :
    LET b == blends.items[i]
    IN \/ \E k \in 1..9 : NotANumber(RawOxide(b, k))
       \/ NotANumber(RawGcv(b))
       \/ NotANumber(b.cost)

\* C11: an oxide value, a GCV or a cost that is absent, null, an empty
\* string or not coercible to a finite number is used as 0, and a request
\* carrying such a value is never answered with an error (500) nor with a
\* NaN in a returned metric.
C11_CoercedToZeroNoNaN ==
  Sanitized =>
    /\ \A i \in 1..Len(blends.items) :
         LET b == blends.items[i]
         IN /\ \A k \in 1..9 : NotANumber(RawOxide(b, k)) => oxideValues[i][k] = 0
            /\ NotANumber(RawGcv(b)) => gcvValue[i] = 0
            /\ NotANumber(b.cost) => costsPerTon[i] = 0
    /\ (SomeCoerced /\ pc = "done") =>
         /\ response.status \in {200, 404}
         /\ response.status = 200 =>
              /\ response.current_blend.gcv.t # "nan"
              /\ response.current_blend.cost.t # "nan"

\* C12: the optimizer stops enumerating at a configured ceiling on the
\* number of combinations and reports resource exhaustion.  The handler
\* configures no ceiling and has no such response; the claim is stated
\* here for a ceiling of 100 combinations: no request has more than 100
\* combinations evaluated.
C12_CeilingAborts == Len(validBlends) <= 100

\* the spec's table of the three regimes: intercept and the coefficients of
\* SiO2, Al2O3, Fe2O3, CaO, MgO, Na2O, K2O, SO3, TiO2, in thousandths
RegimeTable ==
  << [intercept |-> 1245000, coef |-> <<1100, 950, -2500, -2980, -4500, -7890, -7890, -1700, -630>>],
     [intercept |-> 1323000, coef |-> <<1450, 683, -2390, -3100, -4500, -7490, -7490, -2100, -630>>],
     [intercept |-> 1395000, coef |-> <<1200, 900, -2500, -3100, -4500, -7200, -7200, -1700, -630>>] >>

\* the regime of a vector in hundredths, by SiO2 + Al2O3 against 55 and 75
RegimeOf(values) ==
  IF values[1] + values[2] < 5500 THEN 1
  ELSE IF values[1] + values[2] < 7500 THEN 2 ELSE 3

\* a regime's formula on a vector in hundredths, in 10^-5
RECURSIVE Dot(_, _, _)
Dot(c, x, n) == IF n = 0 THEN 0 ELSE Dot(c, x, n - 1) + c[n] * x[n]
RegimeFormula(r, values) ==
  100 * RegimeTable[r].intercept + Dot(RegimeTable[r].coef, values, 9)

\* C13: calculateAFT returns the formula of the regime chosen by
\* sumSiAl = SiO2 + Al2O3: the 1245-intercept formula when sumSiAl < 55, the
\* 1323-intercept formula when 55 <= sumSiAl < 75 (so at 55 exactly), the
\* 1395-intercept formula when sumSiAl >= 75 (so at 75 exactly), with the
\* coefficients of the spec's table.
C13_ThreeRegimes ==
  aftPc = "returned" =>
    /\ aftResult = RegimeFormula(RegimeOf(aftValues), aftValues)
    /\ aftValues[1] + aftValues[2] = 5500 => aftResult = RegimeFormula(2, aftValues)
    /\ aftValues[1] + aftValues[2] = 7500 => aftResult = RegimeFormula(3, aftValues)

\* a call at sumSiAl = 55 exactly, where the formulas of regimes 1 and 2
\* differ
C13_Witness ==
  /\ aftPc = "returned"
  /\ aftValues[1] + aftValues[2] = 5500
  /\ aftResult = RegimeFormula(2, aftValues)
  /\ aftResult # RegimeFormula(1, aftValues)

\* the canonical oxide order of the claim
CanonicalOrder == <<"SiO2", "Al2O3", "Fe2O3", "CaO", "MgO", "Na2O", "K2O", "SO3", "TiO2">>

\* C14: every candidate has cost = sum_i(percentage_i * cost_i) / 100,
\* gcv = sum_i(percentage_i * gcv_i) / 100, blended_oxides[k] =
\* sum_i(oxide_i[k] * percentage_i / 100) for the nine oxides in the order
\* SiO2, Al2O3, Fe2O3, CaO, MgO, Na2O, K2O, SO3, TiO2, and predicted_aft =
\* calculateAFT(blended_oxides) read in that same order.  (cost, gcv and
\* blended oxides are in hundredths, so the division by 100 is in the unit.)
C14_CandidateMetrics ==
  (Sanitized /\ pc # "enumerate") =>
    LET n == Len(blends.items)
    IN /\ \A i \in 1..n : \A k \in 1..9 :
            blends.items[i].hasProps /\ blends.items[i].properties[CanonicalOrder[k]].t = "num"
            => oxideValues[i][k] = blends.items[i].properties[CanonicalOrder[k]].v
       /\ \A j \in 1..Len(validBlends) :
            LET c == validBlends[j]
            IN /\ Len(c.blend) = n
               /\ c.cost = Dot(c.blend, costsPerTon, n)
               /\ c.gcv = Dot(c.blend, gcvValue, n)
               /\ Len(c.blended_oxides) = 9
               /\ \A k \in 1..9 :
                    c.blended_oxides[k] = Dot(c.blend, [i \in 1..n |-> oxideValues[i][k]], n)
               /\ c.predicted_aft = calculateAFT(c.blended_oxides)
               /\ c.predicted_aft = RegimeFormula(RegimeOf(c.blended_oxides), c.blended_oxides)

\* coals A and B at 60 and 40 percent: cost 14, gcv 5400, SiO2 42
C14_Witness ==
  /\ pc = "done" /\ response.status = 200
  /\ costsPerTon = <<10, 20>> /\ gcvValue = <<5000, 6000>>
  /\ \E j \in 1..Len(validBlends) :
       /\ validBlends[j].blend = <<60, 40>>
       /\ validBlends[j].cost = 1400
       /\ validBlends[j].gcv = 540000
       /\ validBlends[j].blended_oxides[1] = 4200

\* sum over the coals of w[i] * f[i], for weights that may be infinite
RECURSIVE JsDot(_, _, _)
JsDot(w, f, n) == IF n = 0 THEN Num(0) ELSE JsAdd(JsDot(w, f, n - 1), JsMul(w[n], Num(f[n])))

\* C15: current_blend is the weighted projection of the coals with the
\* current values as given, whatever their sum: its blend is the current
\* values, and its oxide blend (hence predicted_aft), its cost and its gcv
\* all use the weights current_i / 100.
C15_CurrentBlendProjection ==
  (pc = "done" /\ response.status = 200) =>
    LET n == Len(blends.items)
        cb == response.current_blend
        w == cb.blend
        proj == [k \in 1..9 |-> JsDot(w, [i \in 1..n |-> oxideValues[i][k]], n)]
    IN /\ Len(w) = n
       /\ \A i \in 1..n :
            blends.items[i].current.t \in {"num", "numstr", "inf"}
            => w[i] = ToNumber(blends.items[i].current)
       /\ cb.gcv = JsDot(w, gcvValue, n)
       /\ cb.cost = JsDot(w, costsPerTon, n)
       /\ \A k \in 1..9 : proj[k].t = "num"
       /\ cb.predicted_aft = calculateAFT([k \in 1..9 |-> proj[k].v])

\* the five fields of a BlendCandidate
CandidateFields == {"blend", "predicted_aft", "cost", "gcv", "blended_oxides"}

\* C16: in a successful response each of best_aft_blend, cheapest_blend,
\* balanced_blend and current_blend carries the five fields blend,
\* predicted_aft, cost, gcv and blended_oxides.
C16_FiveFields ==
  (pc = "done" /\ response.status = 200) =>
    /\ DOMAIN response.best_aft_blend = CandidateFields
    /\ DOMAIN response.cheapest_blend = CandidateFields
    /\ DOMAIN response.balanced_blend = CandidateFields
    /\ DOMAIN response.current_blend = CandidateFields

\* a request entry's own k-th oxide value as the sanitisation reads it:
\* the number sent, 0 when there is none
OwnOxide(b, k) == IF NotANumber(RawOxide(b, k)) THEN 0 ELSE RawOxide(b, k).v

\* C17: individual_coal_afts has one entry per input coal, in input order,
\* pairing the coal's name with calculateAFT of that coal's own oxide
\* vector alone: a function of the coal's properties only, not of any
\* min, max, current or cost nor of another coal.  (An entry sent without
\* a name is labelled coal-i, i its position from 0.)
C17_IndividualAFTs ==
  (pc = "done" /\ response.status = 200) =>
    LET n == Len(blends.items)
        afts == response.individual_coal_afts
    IN /\ Len(afts) = n
       /\ \A i \in 1..n :
            LET b == blends.items[i]
                own == [k \in 1..9 |-> 100 * OwnOxide(b, k)]
            IN /\ DOMAIN afts[i] = {"coal", "predicted_aft"}
               /\ b.coal # "" => afts[i].coal = b.coal
               /\ b.coal = "" =>
                    afts[i].coal = <<"coal-0", "coal-1", "coal-2", "coal-3">>[i]
               /\ afts[i].predicted_aft = RegimeFormula(RegimeOf(own), own)

\* coals B, an unnamed coal and A in that order: three entries in that
\* order with B's and A's different AFTs
C17_Witness ==
  /\ pc = "done" /\ response.status = 200
  /\ Len(response.individual_coal_afts) = 3
  /\ response.individual_coal_afts[1].coal = "B"
  /\ response.individual_coal_afts[2].coal = "coal-1"
  /\ response.individual_coal_afts[3].coal = "A"
  /\ response.individual_coal_afts[1].predicted_aft = 118005000
  /\ response.individual_coal_afts[3].predicted_aft = 133890000

\* the supplied min and max of an entry in tenths (0 and 100 when none is
\* supplied), and a value clamped to [0,100]
SuppliedMin(b) == IF b.min.t \in {"num", "numstr"} THEN b.min.v ELSE 0
SuppliedMax(b) ==
  IF b.max.t \in {"num", "numstr"} THEN b.max.v
  ELSE IF b.max.t \in {"null", "emptystr"} THEN 0 ELSE 1000
Clamped(t) == IF t < 0 THEN 0 ELSE IF t > 1000 THEN 1000 ELSE t
\* the entry carries both a min and a max, as numbers or numeric strings
BothSupplied(b) == b.min.t \in {"num", "numstr"} /\ b.max.t \in {"num", "numstr"}

\* r is t (in tenths) rounded to the nearest integer, halves up
IsRounded(r, t) == 10 * r - 5 <= t /\ t < 10 * r + 5

\* C18: min and max are clamped to [0,100] and reordered if inverted: when
\* the supplied min is greater than the supplied max the range used is
\* [clamped max, clamped min], so that 0 <= lo <= hi <= 100 always.
C18_InvertedIsSwapped ==
  Sanitized =>
    \A i \in 1..Len(blends.items) :
      LET b == blends.items[i]
          lo == minMaxBounds[i][1]
          hi == minMaxBounds[i][2]
      IN /\ 0 <= lo /\ lo <= hi /\ hi <= 100
         /\ (BothSupplied(b) /\ SuppliedMin(b) > SuppliedMax(b)) =>
              /\ IsRounded(lo, Clamped(SuppliedMax(b)))
              /\ IsRounded(hi, Clamped(SuppliedMin(b)))

\* C18 amended: min and max are clamped to [0,100] and a max below the min
\* is raised to the min, not swapped with it: when the supplied min is
\* greater than the supplied max the range used is the single value
\* [clamped min, clamped min]; otherwise it is [clamped min, clamped max].
\* Both ends are rounded to integers, so 0 <= lo <= hi <= 100 always.  (A
\* min that is absent or not a finite number counts as 0, such a max as
\* 100, and a null or empty max as 0.)
C18_InvertedIsCollapsed ==
  Sanitized =>
    \A i \in 1..Len(blends.items) :
      LET b == blends.items[i]
          lo == minMaxBounds[i][1]
          hi == minMaxBounds[i][2]
      IN /\ 0 <= lo /\ lo <= hi /\ hi <= 100
         /\ IsRounded(lo, Clamped(SuppliedMin(b)))
         /\ IF SuppliedMin(b) > SuppliedMax(b)
              THEN hi = lo
              ELSE IsRounded(hi, Clamped(SuppliedMax(b)))

\* a coal sent with min 70 and max 30, enumerated at exactly 70
C18_Witness ==
  /\ pc = "done"
  /\ \E i \in 1..Len(blends.items) :
       /\ ~blends.items[i].isNull
       /\ blends.items[i].min = NumStr(700)
       /\ blends.items[i].max = NumStr(300)
       /\ minMaxBounds # << >>
       /\ minMaxBounds[i] = <<70, 70>>

\* the bounds (with min <= max for every coal) admit exactly one integer
\* vector summing to 100: they admit one, and either the minima or the
\* maxima sum to 100 or at most one coal has min < max (otherwise one
\* percent can be moved between two coals of a combination)
ExactlyOneFeasible(bounds) ==
  LET n == Len(bounds)
      lows == Dot([i \in 1..n |-> 1], [i \in 1..n |-> bounds[i][1]], n)
      highs == Dot([i \in 1..n |-> 1], [i \in 1..n |-> bounds[i][2]], n)
  IN /\ n >= 1
     /\ lows <= 100 /\ 100 <= highs
     /\ \/ lows = 100
        \/ highs = 100
        \/ Cardinality({i \in 1..n : bounds[i][1] < bounds[i][2]}) <= 1

\* three coals bounded [33,33] except the one at position p, bounded [33,34]
ThreeCoalScenario(p) == [i \in 1..3 |-> IF i = p THEN <<33, 34>> ELSE <<33, 33>>]

\* C19: when the bounds admit exactly one combination, it is the only
\* candidate and best_aft_blend, cheapest_blend and balanced_blend are all
\* that candidate; three coals with min = max = 33 except one with max = 34,
\* at any position, yield the one candidate with 34 at that position.
C19_SingleCombination ==
  /\ (Sanitized /\ pc # "enumerate" /\ ExactlyOneFeasible(minMaxBounds)) =>
       /\ Len(validBlends) = 1
       /\ pc = "done" => response.status = 200
  /\ (Selected /\ Len(validBlends) = 1) =>
       /\ indexOfBestAft = 0 /\ indexOfCheapest = 0 /\ indexOfBalanced = 0
       /\ pc = "done" =>
            /\ response.best_aft_blend = validBlends[1]
            /\ response.cheapest_blend = validBlends[1]
            /\ response.balanced_blend = validBlends[1]
  /\ \A p \in 1..3 :
       (Sanitized /\ pc # "enumerate" /\ minMaxBounds = ThreeCoalScenario(p)) =>
         /\ Len(validBlends) = 1
         /\ validBlends[1].blend = [i \in 1..3 |-> IF i = p THEN 34 ELSE 33]

\* the scenario with the coal allowed 34 in the first place, answered with
\* the three blends all [34,33,33]
C19_Witness ==
  /\ pc = "done" /\ response.status = 200
  /\ minMaxBounds = ThreeCoalScenario(1)
  /\ response.best_aft_blend.blend = <<34, 33, 33>>
  /\ response.cheapest_blend.blend = <<34, 33, 33>>
  /\ response.balanced_blend.blend = <<34, 33, 33>>

\* C20: two /optimize requests in flight share no optimizer state: under
\* every interleaving each response, with its best_aft_blend,
\* cheapest_blend, balanced_blend, current_blend and individual_coal_afts,
\* is the response that request gets when run alone.
C20_NoInterference ==
  \A r \in Requests :
    cPc[r] = "done" => cResponse[r] = ResponseOf(OptimizeLocals(cBlends[r]))

\* request 1 answered after request 2, with different blends, has run
\* during its await, both with a result
C20_Witness ==
  /\ cPc[1] = "done" /\ cPc[2] = "saving"
  /\ cBlends[1] # cBlends[2]
  /\ cResponse[1].status = 200
  /\ frames[2].status = 200
  /\ cResponse[1].best_aft_blend # frames[2].bestAftBlend

\* every current of the request is a finite number that is not negative
NonNegativeWeights ==
  \A i \in 1..Len(blends.items) :
    LET n == ToNumber(blends.items[i].current)
    IN n.t \in {"num", "nan"} /\ (n.t = "num" => n.v >= 0)

\* C21: whatever a coal's cost field holds, the cost per unit used in the
\* weighted sums is a finite number that is not negative, 0 for a missing
\* or invalid cost; so the cost of every candidate, and the cost of the
\* current blend when no current is negative, is not negative.
C21_CostNonNegative ==
  Sanitized =>
    /\ \A i \in 1..Len(blends.items) :
         /\ costsPerTon[i] >= 0
         /\ blends.items[i].cost.t \in {"undefined", "null", "emptystr", "badstr"}
              => costsPerTon[i] = 0
    /\ \A i \in 1..Len(validBlends) : validBlends[i].cost >= 0
    /\ (pc = "done" /\ response.status = 200 /\ NonNegativeWeights) =>
         /\ response.current_blend.cost.t = "num"
         /\ response.current_blend.cost.v >= 0

\* ------------------------------------------------------------------------
\* Pairs of /optimize requests on the same two coals, which differ in the
\* coals' current values and in the min and max of the first coal
\* ------------------------------------------------------------------------

\* coal A of the catalogue with the given min, max and current
EntryA(mn, mx, cur) ==
  Entry("A", TRUE, CanonProps(OxA, 5000), Num(mn), Num(mx), cur, Num(10))

\* coal B of the catalogue, bounds [0,100], with the given current
EntryB(cur) ==
  Entry("B", TRUE, CanonProps(OxB, 6000), Num(0), Num(1000), cur, Num(20))

\* the bodies of the pairs: A within [40,60], within [45,55] or at 100
\* exactly, beside B within [0,100], with currents that are numbers,
\* strings, absent or Infinity
PairBodies ==
  { BodyArray(<<EntryA(bnd[1], bnd[2], ca), EntryB(cb)>>) :
      bnd \in {<<400, 600>>, <<450, 550>>, <<1000, 1000>>},
      ca \in {Num(60), Num(0), Inf, Undefined},
      cb \in {Num(40), BadStr} }

\* request r of a pair arrives and has passed requireAuth
PArrive(r) ==
  /\ cPc[r] = "idle"
  /\ \E b \in PairBodies : cBlends' = [cBlends EXCEPT ![r] = b]
  /\ cPc' = [cPc EXCEPT ![r] = "ready"]
  /\ UNCHANGED <<frames, cResponse, handler, gen, aft, dfs, norm, usr>>

PairNext == \E r \in Requests : PArrive(r) \/ CRun(r) \/ CRespond(r)

SpecPair == Init /\ [][PairNext]_vars

\* the two bodies are arrays of the same entries up to the named field(s)
SameBut(b1, b2, fields) ==
  /\ b1.t = "array" /\ b2.t = "array"
  /\ Len(b1.items) = Len(b2.items)
  /\ \A i \in 1..Len(b1.items) :
       \A f \in DOMAIN b1.items[i] :
         f \notin fields => b1.items[i][f] = b2.items[i][f]

\* C30: two requests that differ only in the coals' current values get the
\* same status, best_aft_blend, cheapest_blend, balanced_blend and
\* individual_coal_afts; two requests with a result that differ only in
\* min and max get the same current_blend and individual_coal_afts.
C30_Independence ==
  (cPc[1] = "done" /\ cPc[2] = "done") =>
    /\ SameBut(cBlends[1], cBlends[2], {"current"}) =>
         /\ cResponse[1].status = cResponse[2].status
         /\ cResponse[1].best_aft_blend = cResponse[2].best_aft_blend
         /\ cResponse[1].cheapest_blend = cResponse[2].cheapest_blend
         /\ cResponse[1].balanced_blend = cResponse[2].balanced_blend
         /\ cResponse[1].individual_coal_afts = cResponse[2].individual_coal_afts
    /\ (/\ SameBut(cBlends[1], cBlends[2], {"min", "max"})
        /\ cResponse[1].status = 200 /\ cResponse[2].status = 200) =>
         /\ cResponse[1].current_blend = cResponse[2].current_blend
         /\ cResponse[1].individual_coal_afts = cResponse[2].individual_coal_afts

\* two answered requests with a result whose bodies differ, and only in
\* the current values, which give different current blends
C30_Witness ==
  /\ cPc[1] = "done" /\ cPc[2] = "done"
  /\ cBlends[1] # cBlends[2]
  /\ SameBut(cBlends[1], cBlends[2], {"current"})
  /\ cResponse[1].status = 200
  /\ cResponse[1].current_blend # cResponse[2].current_blend
  /\ Len(cResponse[1].individual_coal_afts) = 2

\* ------------------------------------------------------------------------
\* The generator run iteration by iteration (src/app.js lines 1175-1200).
\* dStack holds one activation record of generateCombinations per level
\* of the recursion: idx and acc, the loop variable v, and n, the number
\* of iterations of its for loop begun.  yield* passes every blend of the
\* inner call to the handler's for-of loop, which pushes it (dOut).
\* ------------------------------------------------------------------------

\* largest cross product of the ranges of a bounds list run this way
MaxDfsCross == 303

DfsLists == { b \in GenLists : CrossSize(b, Len(b)) <= MaxDfsCross }

\* the activation record of generateCombinations(bounds, idx, acc) on
\* entry: at the last index there is no loop
DfsEnter(bounds, idx, acc) ==
  [idx |-> idx, acc |-> acc, n |-> 0,
   v |-> IF idx = Len(bounds) - 1 THEN 0 ELSE bounds[idx + 1][1]]

\* Advance leaving v as it is
Advance_stuck(v) == v

\* v += step
Advance(v) == v + step

\* the innermost call returns: its caller's loop goes on with the next v
Return(stack) ==
  LET rest == SubSeq(stack, 1, Len(stack) - 1)
  IN IF Len(rest) = 0 THEN rest
     ELSE [rest EXCEPT ![Len(rest)].v = Advance(@)]

\* for (const blend of generateCombinations(minMaxBounds)), line 1204
DfsCall ==
  /\ dPc = "idle"
  /\ \E b \in DfsLists :
       /\ dBounds' = b
       /\ dStack' = << DfsEnter(b, 0, << >>) >>
  /\ dPc' = "running"
  /\ UNCHANGED <<dOut, dStatus, handler, gen, aft, conc, norm, usr>>

\* lines 1176-1185: the call at the last index yields at most one blend
\* and returns
DfsLast ==
  /\ dPc = "running" /\ Len(dStack) > 0
  /\ LET top == dStack[Len(dStack)]
         lastVal == 100 - SumSeq(top.acc)
     IN /\ top.idx = Len(dBounds) - 1
        /\ dOut' = IF lastVal >= dBounds[top.idx + 1][1] /\ lastVal <= dBounds[top.idx + 1][2]
                     THEN Append(dOut, Append(top.acc, lastVal))
                     ELSE dOut
  /\ dStack' = Return(dStack)
  /\ UNCHANGED <<dPc, dBounds, dStatus, handler, gen, aft, conc, norm, usr>>

\* lines 1187-1199: one iteration of the for loop of the innermost call:
\* break, continue or the recursive call
DfsIterate ==
  /\ dPc = "running" /\ Len(dStack) > 0
  /\ LET d == Len(dStack)
         top == dStack[d]
         sumSoFar == SumSeq(top.acc) + top.v
         begun == [dStack EXCEPT ![d].n = @ + 1]
     IN /\ top.idx < Len(dBounds) - 1
        /\ top.v <= dBounds[top.idx + 1][2]
        /\ dStack' =
             IF sumSoFar > 100 THEN Return(begun)
             ELSE IF \/ sumSoFar + RemainingSum(dBounds, top.idx, 2) < 100
                     \/ sumSoFar + RemainingSum(dBounds, top.idx, 1) > 100
                    THEN [begun EXCEPT ![d].v = Advance(@)]
                    ELSE Append(begun, DfsEnter(dBounds, top.idx + 1, Append(top.acc, top.v)))
  /\ UNCHANGED <<dPc, dBounds, dOut, dStatus, handler, gen, aft, conc, norm, usr>>

\* line 1188: v <= max no longer holds, the call returns
DfsLoopEnd ==
  /\ dPc = "running" /\ Len(dStack) > 0
  /\ LET top == dStack[Len(dStack)]
     IN /\ top.idx < Len(dBounds) - 1
        /\ top.v > dBounds[top.idx + 1][2]
  /\ dStack' = Return(dStack)
  /\ UNCHANGED <<dPc, dBounds, dOut, dStatus, handler, gen, aft, conc, norm, usr>>

\* lines 1228-1293: the generator is exhausted; 404 without a blend, else
\* the selection over the blends pushed and the 200 response
DfsRespond ==
  /\ dPc = "running" /\ Len(dStack) = 0
  /\ dStatus' = IF Len(dOut) = 0 THEN 404 ELSE 200
  /\ dPc' = "done"
  /\ UNCHANGED <<dBounds, dStack, dOut, handler, gen, aft, conc, norm, usr>>

DfsNext == DfsCall \/ DfsLast \/ DfsIterate \/ DfsLoopEnd \/ DfsRespond

\* the handler is synchronous from line 1131 to line 1284: once started,
\* the event loop runs it to its next statement until it answers
SpecDfs == Init /\ [][DfsNext]_vars /\ WF_vars(DfsNext)

\* C29: on every non-empty list of sanitised bounds the enumeration
\* terminates: at most N calls of generateCombinations are active at a
\* time, the for loop of a call begins at most max - min + 1 iterations,
\* and the handler then answers, once, with 200, 404 or 500.
C29_Terminates ==
  /\ [](/\ Len(dStack) <= Len(dBounds)
        /\ \A k \in 1..Len(dStack) :
             dStack[k].n <= dBounds[dStack[k].idx + 1][2] - dBounds[dStack[k].idx + 1][1] + 1)
  /\ (dPc = "running") ~> (dPc = "done" /\ dStatus \in {200, 404, 500})
  /\ [][dStatus # 0 => dStatus' = dStatus]_vars

\* a run on three coals in which the recursion is N deep, the outermost
\* loop is in the last iteration its bounds allow and a blend has been
\* yielded
C29_Witness ==
  /\ dPc = "running"
  /\ Len(dBounds) = 3 /\ Len(dStack) = 3
  /\ dStack[1].n = dBounds[1][2] - dBounds[1][1] + 1
  /\ dStack[1].n > 1
  /\ Len(dOut) > 0

\* ------------------------------------------------------------------------
\* normalizeCoalDoc (src/app.js lines 101-170).  A document is the list of
\* its own fields in the order of Object.keys, and the fields of its
\* properties object when it has one.  A field name is the sequence of its
\* characters; "sub2", "sub3" and "sub4" stand for the Unicode subscript
\* digits.  The fields _id, id, coal, coalType and transportId of the
\* result are copies of other fields and are not modelled.
\* ------------------------------------------------------------------------

\* most fields of a document, its properties object included
MaxFields == 2

canonicalKeys ==
  <<"SiO2", "Al2O3", "Fe2O3", "CaO", "MgO", "Na2O", "K2O", "TiO2", "SO3", "P2O5",
    "Mn3O4", "Sulphur (S)", "GCV">>

\* aliasMap, lines 111-126: field name and canonical key
aliasMap ==
  { << <<"S", "i", "O", "2">>, "SiO2" >>, << <<"S", "i", "O", "sub2">>, "SiO2" >>,
    << <<"A", "l", "2", "O", "3">>, "Al2O3" >>, << <<"A", "l", "sub2", "O", "sub3">>, "Al2O3" >>,
    << <<"F", "e", "2", "O", "3">>, "Fe2O3" >>, << <<"F", "e", "sub2", "O", "sub3">>, "Fe2O3" >>,
    << <<"C", "a", "O">>, "CaO" >>,
    << <<"M", "g", "O">>, "MgO" >>,
    << <<"N", "a", "2", "O">>, "Na2O" >>,
    << <<"K", "2", "O">>, "K2O" >>,
    << <<"T", "i", "O", "2">>, "TiO2" >>, << <<"T", "i", "O", "sub2">>, "TiO2" >>,
    << <<"S", "O", "3">>, "SO3" >>, << <<"S", "O", "sub3">>, "SO3" >>,
    << <<"P", "2", "O", "5">>, "P2O5" >>, << <<"P", "sub2", "O", "sub5">>, "P2O5" >>,
    << <<"M", "n", "3", "O", "4">>, "Mn3O4" >>, << <<"M", "n", "sub3", "O", "sub4">>, "Mn3O4" >>,
    << <<"S", "u", "l", "p", "h", "u", "r", " ", "(", "S", ")">>, "Sulphur (S)" >>,
    << <<"S", "u", "l", "p", "h", "u", "r", "S">>, "Sulphur (S)" >>,
    << <<"S", "u", "l", "p", "h", "u", "r">>, "Sulphur (S)" >>,
    << <<"S">>, "Sulphur (S)" >>,
    << <<"G", "C", "V">>, "GCV" >>, << <<"G", "c", "v">>, "GCV" >>, << <<"g", "c", "v">>, "GCV" >> }

\* aliasMap[k] || null: the canonical key, "" when there is none
AliasOf(k) ==
  IF \E p \in aliasMap : p[1] = k
    THEN (CHOOSE p \in aliasMap : p[1] = k)[2]
    ELSE ""

\* String(k).trim()
RECURSIVE Trim(_)
Trim(k) ==
  IF Len(k) = 0 THEN k
  ELSE IF k[1] = " " THEN Trim(Tail(k))
  ELSE IF k[Len(k)] = " " THEN Trim(SubSeq(k, 1, Len(k) - 1))
  ELSE k

\* .replace(/sub2/g,'2').replace(/sub3/g,'3').replace(/sub4/g,'4'), line 137
ReplaceSubscripts(k) ==
  [i \in 1..Len(k) |->
     CASE k[i] = "sub2" -> "2"
       [] k[i] = "sub3" -> "3"
       [] k[i] = "sub4" -> "4"
       [] OTHER -> k[i]]

\* lines 134-139: the canonical key of a field name, "" when none
MappedKey(k) ==
  LET trimmed == Trim(k)
  IN IF AliasOf(trimmed) # "" THEN AliasOf(trimmed)
     ELSE AliasOf(ReplaceSubscripts(trimmed))

\* line 142: the value stored for a mapped field
CollectedValue(val) ==
  IF val.t \in {"emptystr", "null", "undefined"} THEN Null
  ELSE IF ToNumber(val).t = "nan" THEN val
  ELSE ToNumber(val)

\* collectFrom, lines 131-145, on the fields i..Len(fields)
RECURSIVE collectFrom(_, _, _)
collectFrom(fields, i, properties) ==
  IF i > Len(fields) THEN properties
  ELSE LET mapped == MappedKey(fields[i].key)
       IN collectFrom(fields, i + 1,
            IF mapped # "" THEN [properties EXCEPT ![mapped] = CollectedValue(fields[i].val)]
            ELSE properties)

\* o[name], undefined when the document has no such field
FieldOf(fields, name) ==
  IF \E i \in 1..Len(fields) : fields[i].key = name
    THEN fields[CHOOSE i \in 1..Len(fields) : fields[i].key = name].val
    ELSE Undefined

\* a || b
Truthy(x) == x.t \in {"numstr", "commastr", "badstr", "inf"} \/ (x.t = "num" /\ x.v # 0)
JsOr(a, b) == IF Truthy(a) THEN a ELSE b

\* lines 128-129: every canonical key with the value null
NullProperties == [k \in {canonicalKeys[i] : i \in 1..Len(canonicalKeys)} |-> Null]

\* line 150: properties['GCV'] is still null and o.gcv || o.GCV || o.Gcv
\* is truthy
GcvFallback(fields, properties) ==
  LET g == JsOr(JsOr(FieldOf(fields, <<"g", "c", "v">>), FieldOf(fields, <<"G", "C", "V">>)),
                FieldOf(fields, <<"G", "c", "v">>))
  IN IF properties["GCV"].t \in {"null", "undefined"} /\ Truthy(g)
       THEN [properties EXCEPT !["GCV"] = g]
       ELSE properties

\* lines 154-157: a value that Number() converts is replaced by the number
Numbered(properties) ==
  [k \in DOMAIN properties |->
     LET v == properties[k]
     IN IF v.t \notin {"null", "undefined"} /\ ToNumber(v).t # "nan" THEN ToNumber(v) ELSE v]

normalizeCoalDoc(raw) ==
  IF ~raw.isDoc THEN [isDoc |-> FALSE, properties |-> NullProperties, gcv |-> Null]
  ELSE LET own == collectFrom(raw.fields, 1, NullProperties)
           nested == IF raw.hasProps THEN collectFrom(raw.properties, 1, own) ELSE own
           properties == Numbered(GcvFallback(raw.fields, nested))
       IN [isDoc |-> TRUE, properties |-> properties, gcv |-> properties["GCV"]]

\* the field names and values of the documents of the model: plain,
\* subscript, padded and unknown names; numbers, numeric and non-numeric
\* strings and the empty string
NormKeys ==
  { <<"S", "i", "O", "2">>, <<"S", "i", "O", "sub2">>,
    <<" ", "N", "a", "sub2", "O", " ">>,
    <<"g", "c", "v">>, <<"G", "C", "V">>, <<"s", "i", "o", "2">> }
NormValues == { Num(50), NumStr(50), BadStr, EmptyStr }
Field(k, v) == [key |-> k, val |-> v]

NormFields == { Field(k, v) : k \in NormKeys, v \in NormValues }

\* the names of the fields lo..hi of f differ: they are the keys of one
\* object
DistinctKeys(f, lo, hi) ==
  \A i \in lo..hi : \A j \in lo..hi : i # j => f[i].key # f[j].key

Doc(fields, hp, props) == [isDoc |-> TRUE, fields |-> fields, hasProps |-> hp, properties |-> props]

\* normalizeCoalDoc is called on null or on a document of up to MaxFields
\* fields, the first s its own and the others those of its properties
NormPick ==
  /\ nPc = "idle"
  /\ \/ nArg' = NoDoc /\ nRaw' = NoDoc
     \/ \E n \in 0..MaxFields : \E f \in [1..n -> NormFields] :
          \E s \in 0..n : \E hp \in BOOLEAN :
            /\ DistinctKeys(f, 1, s) /\ DistinctKeys(f, s + 1, n)
            /\ s < n => hp
            /\ nArg' = Doc(SubSeq(f, 1, s), hp, SubSeq(f, s + 1, n))
            /\ nRaw' = nArg'
  /\ nPc' = "picked"
  /\ UNCHANGED <<nResult, handler, gen, aft, conc, dfs, usr>>

\* the call: no statement of the function assigns to raw or to a field of
\* it (line 103 copies it, collectFrom reads the copy)
NormCall ==
  /\ nPc = "picked"
  /\ nResult' = normalizeCoalDoc(nRaw)
  /\ nPc' = "called"
  /\ UNCHANGED <<nArg, nRaw, handler, gen, aft, conc, dfs, usr>>

NormNext == NormPick \/ NormCall

SpecNorm == Init /\ [][NormNext]_vars

\* C23: for every input document normalizeCoalDoc leaves the document as
\* it was and returns properties with exactly the 13 canonical keys, each
\* value null or a number, never a string, whatever alias named the field.
C23_CanonicalNumeric ==
  (nPc = "called" /\ nArg.isDoc) =>
    /\ nRaw = nArg
    /\ DOMAIN nResult.properties = {canonicalKeys[i] : i \in 1..Len(canonicalKeys)}
    /\ Cardinality(DOMAIN nResult.properties) = 13
    /\ \A k \in DOMAIN nResult.properties : nResult.properties[k].t \in {"null", "num"}

\* ------------------------------------------------------------------------
\* Trials and locks: requireAuth (src/app.js lines 180-199), POST
\* /auth/login (932-957), the user bookkeeping of POST /optimize (1110-1128,
\* 1279-1284) and POST /consume-trial (1360-1394), for one user and one
\* browser session with two connections.  A handler runs without interruption between two
\* awaits; the awaits are User.findById / User.findOne and user.save()
\* (bcrypt.compare of line 942 is taken together with the save that
\* follows it).  The user is the document read by the find; user.save()
\* writes the paths the handler has modified and appends what it pushed
\* onto ipHistory.  The user document always exists; trialsLeft is a number.
\* ------------------------------------------------------------------------

\* user.lockedUntil && user.lockedUntil > new Date()
Locked(u, t) == u.lockedUntil # NoDate /\ u.lockedUntil > t

\* res.status(status).json({ error / message })
Answer(status, message) == [NoRes EXCEPT !.status = status, !.message = message]

\* what a handler has decided when it reaches an await or its end: the
\* response, the document in its memory, whether it saves the document,
\* and whether it then destroys or creates the session
Plan(res, doc, save, destroy, create) ==
  [res |-> res, doc |-> doc, save |-> save, destroy |-> destroy, create |-> create]

\* getClientIp(req): both connections come from one address
ClientIp == "10.0.0.1"

\* user.lastIP = ip; user.ipHistory.push({ ip, when })
RecordIp(u, ip) == [u EXCEPT !.lastIP = ip, !.ipHistory = @ + 1]

\* OptimizeRequest saving the document when the blends are invalid
OptimizeRequest_savesIp(u, b, ip, t) ==
  IF Locked(u, t) THEN Plan(Answer(403, "Account locked until"), u, FALSE, FALSE, FALSE)
  ELSE IF u.trialsLeft <= 0
    THEN Plan(Answer(403, "Trials exhausted. Account locked for 24 hours."),
              [u EXCEPT !.lockedUntil = t + LockHours], TRUE, TRUE, FALSE)
  ELSE LET recorded == RecordIp(u, ip)
           status == OptimizeLocals(b).status
           left == Max2(0, u.trialsLeft - 1)
       IN IF status = 400
            THEN Plan(Answer(400, "Invalid blend data"), recorded, TRUE, FALSE, FALSE)
          ELSE IF status = 500
            THEN Plan([Answer(500, "Optimization failed") EXCEPT !.ran = TRUE],
                      recorded, FALSE, FALSE, FALSE)
          ELSE IF status = 404
            THEN Plan([Answer(404, "No valid blends found") EXCEPT !.ran = TRUE],
                      recorded, FALSE, FALSE, FALSE)
          ELSE Plan([Answer(200, "") EXCEPT !.ran = TRUE, !.result = TRUE],
                    [recorded EXCEPT !.trialsLeft = left,
                                     !.lockedUntil = IF left <= 0 THEN t + LockHours ELSE @],
                    TRUE, FALSE, FALSE)

\* the /optimize handler from line 1110 to its first await or its answer
OptimizeRequest(u, b, ip, t) ==
  IF Locked(u, t) THEN Plan(Answer(403, "Account locked until"), u, FALSE, FALSE, FALSE)
  ELSE IF u.trialsLeft <= 0
    THEN Plan(Answer(403, "Trials exhausted. Account locked for 24 hours."),
              [u EXCEPT !.lockedUntil = t + LockHours], TRUE, TRUE, FALSE)
  ELSE LET recorded == RecordIp(u, ip)
           status == OptimizeLocals(b).status
           left == Max2(0, u.trialsLeft - 1)
       IN IF status = 400
            THEN Plan(Answer(400, "Invalid blend data"), recorded, FALSE, FALSE, FALSE)
          ELSE IF status = 500
            THEN Plan([Answer(500, "Optimization failed") EXCEPT !.ran = TRUE],
                      recorded, FALSE, FALSE, FALSE)
          ELSE IF status = 404
            THEN Plan([Answer(404, "No valid blends found") EXCEPT !.ran = TRUE],
                      recorded, FALSE, FALSE, FALSE)
          ELSE Plan([Answer(200, "") EXCEPT !.ran = TRUE, !.result = TRUE],
                    [recorded EXCEPT !.trialsLeft = left,
                                     !.lockedUntil = IF left <= 0 THEN t + LockHours ELSE @],
                    TRUE, FALSE, FALSE)

\* res.json({ message, trialsLeft, lockedUntil })
Carrying(message, u) ==
  [Answer(200, message) EXCEPT !.carries = TRUE, !.trialsLeft = u.trialsLeft,
                               !.lockedUntil = u.lockedUntil]

\* ConsumeTrial without the lock when the trials reach 0
ConsumeTrial_noLock(u, t) ==
  IF Locked(u, t)
    THEN Plan([Carrying("", u) EXCEPT !.status = 403, !.message = "Account locked"],
              u, FALSE, FALSE, FALSE)
  ELSE LET left == u.trialsLeft - 1
       IN IF left <= 0
            THEN LET doc == [u EXCEPT !.trialsLeft = 0]
                 IN Plan(Carrying("Trials exhausted. Account locked for 24 hours.", doc),
                         doc, TRUE, TRUE, FALSE)
            ELSE LET doc == [u EXCEPT !.trialsLeft = left]
                 IN Plan(Carrying("Trial consumed", doc), doc, TRUE, FALSE, FALSE)

\* the /consume-trial handler from line 1362 to its await
ConsumeTrial(u, t) ==
  IF Locked(u, t)
    THEN Plan([Carrying("", u) EXCEPT !.status = 403, !.message = "Account locked"],
              u, FALSE, FALSE, FALSE)
  ELSE LET left == u.trialsLeft - 1
       IN IF left <= 0
            THEN LET doc == [u EXCEPT !.trialsLeft = 0, !.lockedUntil = t + LockHours]
                 IN Plan(Carrying("Trials exhausted. Account locked for 24 hours.", doc),
                         doc, TRUE, TRUE, FALSE)
            ELSE LET doc == [u EXCEPT !.trialsLeft = left]
                 IN Plan(Carrying("Trial consumed", doc), doc, TRUE, FALSE, FALSE)

\* Login without the lock check of lines 939-941
Login_noLockCheck(u, creds, ip, t) ==
  IF creds = "wrong" THEN Plan(Answer(401, "Invalid credentials"), u, FALSE, FALSE, FALSE)
  ELSE Plan(Answer(200, "Logged in"), RecordIp(u, ip), TRUE, FALSE, TRUE)

\* the /auth/login handler from line 939, the user found
Login(u, creds, ip, t) ==
  IF Locked(u, t) THEN Plan(Answer(403, "Account locked until"), u, FALSE, FALSE, FALSE)
  ELSE IF creds = "wrong" THEN Plan(Answer(401, "Invalid credentials"), u, FALSE, FALSE, FALSE)
  ELSE Plan(Answer(200, "Logged in"), RecordIp(u, ip), TRUE, FALSE, TRUE)

\* the paths of the document that differ from what was read
ModifiedPaths(u, doc) == { f \in {"trialsLeft", "lockedUntil", "lastIP"} : doc[f] # u[f] }

\* user.save() of the document pend.doc that was read as pend.read: the
\* modified paths are set, the entries pushed onto ipHistory are appended
SaveDoc(stored, pend) ==
  [f \in DOMAIN stored |->
     IF f = "ipHistory" THEN stored.ipHistory + (pend.doc.ipHistory - pend.read.ipHistory)
     ELSE IF f \in ModifiedPaths(pend.read, pend.doc) THEN pend.doc[f]
     ELSE stored[f]]

\* the bodies of the /optimize requests of the user: no blends (400), a
\* null entry (500), one coal bound to exactly 60 (404) and one coal
\* within [0,100] (200)
UserBodies ==
  { BodyMissing,
    BodyArray(<< NullEntry >>),
    BodyArray(<< Entry("C", TRUE, CanonProps(OxA, 5000), Num(600), Num(600), Num(50), Num(20)) >>),
    BodyArray(<< Entry("A", TRUE, CanonProps(OxA, 5000), Num(0), Num(1000), Num(60), Num(10)) >>) }

\* the requests: creds is "ok" for the user's email with the right
\* password, "wrong" with another password, "missing" without password
Calls ==
  { [NoCall EXCEPT !.kind = "optimize", !.body = b] : b \in UserBodies } \cup
  { [NoCall EXCEPT !.kind = "consume"] } \cup
  { [NoCall EXCEPT !.kind = "login", !.creds = c] : c \in {"ok", "wrong", "missing"} }

\* the handler of a request, from the document read by the find to its
\* next await or its answer
Handle(call, u, ip, t) ==
  CASE call.kind = "optimize" -> OptimizeRequest(u, call.body, ip, t)
    [] call.kind = "consume" -> ConsumeTrial(u, t)
    [] OTHER -> Login(u, call.creds, ip, t)

\* the request call on connection r is answered with res; its body is
\* released with the request
Answered(r, call, res) ==
  /\ uRes' = [uRes EXCEPT ![r] = res]
  /\ uCall' = [uCall EXCEPT ![r] = [call EXCEPT !.body = BodyMissing]]
  /\ uPc' = [uPc EXCEPT ![r] = "done"]

\* a request arrives on connection r; the browser posts /auth/login only
\* when it has no session.  /auth/login: line 935, then the await of
\* User.findOne.  The other routes: requireAuth lines 182-184,
\* then the await of User.findById.
UArrive(r) ==
  /\ uPc[r] \in {"idle", "done"}
  /\ \E call \in Calls :
       /\ call.kind = "login" => ~session
       /\ \E arrived \in {[call EXCEPT !.late = exhausted]} :
            IF call.kind = "login" /\ call.creds = "missing"
              THEN Answered(r, arrived, Answer(400, "Email & password required"))
            ELSE IF call.kind # "login" /\ ~session
              THEN Answered(r, arrived, Answer(401, "Not authenticated"))
            ELSE /\ uCall' = [uCall EXCEPT ![r] = arrived]
                 /\ uPc' = [uPc EXCEPT ![r] = "find"]
                 /\ uRes' = [uRes EXCEPT ![r] = NoRes]
  /\ UNCHANGED <<user, now, session, uPend, granted, exhausted, handler, gen, aft, conc, dfs, norm>>

\* the find of request r completes: requireAuth lines 185-194 (the lock
\* check of /auth/login is in Login), then the handler up to its await of
\* user.save() or to its answer
ULoad(r) ==
  /\ uPc[r] = "find"
  /\ IF uCall[r].kind # "login" /\ Locked(user, now)
       THEN /\ Answered(r, uCall[r], Answer(403, "Account locked until"))
            /\ UNCHANGED uPend
       ELSE \E plan \in {Handle(uCall[r], user, ClientIp, now)} :
              IF plan.save
                THEN /\ uPend' = [uPend EXCEPT ![r] =
                                    [read |-> user, doc |-> plan.doc,
                                     destroy |-> plan.destroy, create |-> plan.create,
                                     res |-> plan.res]]
                     /\ uPc' = [uPc EXCEPT ![r] = "save"]
                     /\ UNCHANGED <<uRes, uCall>>
                ELSE /\ Answered(r, uCall[r], plan.res)
                     /\ UNCHANGED uPend
  /\ UNCHANGED <<user, now, session, granted, exhausted, handler, gen, aft, conc, dfs, norm>>

\* user.save() of request r completes; the handler destroys the session
\* (lines 1120, 1379) or sets its userId (line 951) and answers
USave(r) ==
  /\ uPc[r] = "save"
  /\ user' = SaveDoc(user, uPend[r])
  /\ session' = IF uPend[r].destroy THEN FALSE
                ELSE IF uPend[r].create THEN TRUE
                ELSE session
  /\ Answered(r, uCall[r], uPend[r].res)
  /\ uPend' = [uPend EXCEPT ![r] = NoPend]
  /\ granted' = IF uPend[r].res.result THEN granted + 1 ELSE granted
  /\ exhausted' = (exhausted \/ user'.trialsLeft = 0)
  /\ UNCHANGED <<now, handler, gen, aft, conc, dfs, norm>>

\* time passes
Tick ==
  /\ now + TickHours <= MaxTime
  /\ now' = now + TickHours
  /\ UNCHANGED <<user, session, uPc, uCall, uPend, uRes, granted, exhausted,
                 handler, gen, aft, conc, dfs, norm>>

UserNext == Tick \/ \E r \in Requests : UArrive(r) \/ ULoad(r) \/ USave(r)

SpecUser == Init /\ [][UserNext]_vars

\* ------------------------------------------------------------------------
\* Properties of the trial and lock bookkeeping
\* ------------------------------------------------------------------------

\* request r is answered in this step
Answers(r) ==
  /\ uPc'[r] = "done"
  /\ <<uPc[r], uCall[r], uRes[r]>> # <<uPc'[r], uCall'[r], uRes'[r]>>

\* the find of request r completes in this step
Loads(r) == uPc[r] = "find" /\ uPc'[r] # "find"

\* the save of request r completes in this step
Saves(r) == uPc[r] = "save" /\ uPc'[r] = "done"

\* C25: under every interleaving of the /optimize requests of a user whose
\* stored trialsLeft is k, at most k requests are answered with an
\* optimization result, and every result lowers the stored trialsLeft by
\* exactly 1: the results sent and the trials left never add up to more
\* than k.
C25_TrialEnforcement ==
  /\ granted <= MaxTrials
  /\ granted + user.trialsLeft <= MaxTrials

\* C24: from a stored user with trialsLeft > 0 and lockedUntil null, the
\* stored trialsLeft stays an integer >= 0, no request increases it, and
\* whenever it is 0 the stored lockedUntil is not null.
C24_TrialsInvariant ==
  [][/\ user'.trialsLeft \in Nat
     /\ user'.trialsLeft <= user.trialsLeft
     /\ user'.trialsLeft = 0 => user'.lockedUntil # NoDate]_vars

\* C28: an /optimize request that passes requireAuth with a stored
\* trialsLeft of 0 is, whatever its body, answered 403 after it has set
\* lockedUntil to 24 hours from now, saved the user and destroyed the
\* session; and no request that arrives after the stored trialsLeft has
\* been 0 is answered with an optimization result.
C28_ExhaustedStays403 ==
  /\ [][\A r \in Requests :
          (Loads(r) /\ uCall[r].kind = "optimize" /\ ~Locked(user, now) /\ user.trialsLeft = 0) =>
            /\ uPc'[r] = "save"
            /\ uPend'[r].res.status = 403 /\ ~uPend'[r].res.result /\ ~uPend'[r].res.ran
            /\ uPend'[r].doc.lockedUntil = now + LockHours
            /\ uPend'[r].destroy]_vars
  /\ [][\A r \in Requests :
          (Saves(r) /\ uCall[r].kind = "optimize" /\ uPend[r].read.trialsLeft = 0) =>
            /\ user'.lockedUntil = uPend[r].doc.lockedUntil
            /\ ~session'
            /\ uRes'[r].status = 403]_vars
  /\ [](\A r \in Requests : (uPc[r] = "done" /\ uCall[r].late) => ~uRes[r].result)

\* a request arrives on connection r in this step
Arrives(r) ==
  /\ uPc[r] \in {"idle", "done"}
  /\ <<uPc[r], uCall[r], uRes[r]>> # <<uPc'[r], uCall'[r], uRes'[r]>>

\* C26: an /optimize request that is answered 400, 404 or 500 leaves the
\* stored user as it was (trialsLeft, lockedUntil, lastIP and ipHistory),
\* and a step of an /optimize request changes the stored trialsLeft only
\* when it answers 200 with a result.
C26_FailedLeavesUser ==
  [][\A r \in Requests :
       /\ (Answers(r) /\ uCall'[r].kind = "optimize" /\ uRes'[r].status \in {400, 404, 500}) =>
            user' = user
       /\ (uPc'[r] # uPc[r] /\ uCall'[r].kind = "optimize"
             /\ user'.trialsLeft # user.trialsLeft) =>
            (Answers(r) /\ uRes'[r].status = 200 /\ uRes'[r].result)]_vars

\* the logged-in user has had only an /optimize request that failed in the
\* optimization: nothing but the login is stored
C26_Witness ==
  /\ uPc[1] = "done" /\ uCall[1].kind = "optimize"
  /\ uRes[1].status = 500 /\ uRes[1].ran
  /\ uPc[2] = "done" /\ uCall[2].kind = "optimize" /\ uRes[2].status = 404
  /\ session /\ granted = 0
  /\ user = [trialsLeft |-> MaxTrials, lockedUntil |-> NoDate, lastIP |-> ClientIp, ipHistory |-> 1]

C27_LockedRefused ==
  [][\A r \in Requests :
       /\ (Arrives(r) /\ uCall'[r].kind # "login" /\ ~session) =>
            /\ Answers(r) /\ uRes'[r].status = 401 /\ ~uRes'[r].ran
            /\ user' = user /\ session' = session
       /\ (Arrives(r) /\ Answers(r) /\ Locked(user, now)
             /\ (uCall'[r].kind = "login" \/ session)) =>
            uRes'[r].status = 403
       /\ (Loads(r) /\ Locked(user, now)) =>
            /\ Answers(r) /\ uRes'[r].status = 403
            /\ ~uRes'[r].ran /\ ~uRes'[r].result
            /\ user' = user /\ session' = session]_vars

\* C27 amended: as C27, for the /auth/login requests that carry an email
\* and a password.
C27_LockedRefusedWithCredentials ==
  [][\A r \in Requests :
       /\ (Arrives(r) /\ uCall'[r].kind # "login" /\ ~session) =>
            /\ Answers(r) /\ uRes'[r].status = 401 /\ ~uRes'[r].ran
            /\ user' = user /\ session' = session
       /\ (Arrives(r) /\ Answers(r) /\ Locked(user, now)
             /\ ((uCall'[r].kind = "login" /\ uCall'[r].creds # "missing") \/ session)) =>
            uRes'[r].status = 403
       /\ (Loads(r) /\ Locked(user, now)) =>
            /\ Answers(r) /\ uRes'[r].status = 403
            /\ ~uRes'[r].ran /\ ~uRes'[r].result
            /\ user' = user /\ session' = session]_vars

\* the account is locked, the right password has been refused with 403 on
\* one connection and a request without session with 401 on the other
C27_Witness ==
  /\ Locked(user, now) /\ ~session
  /\ uPc[1] = "done" /\ uCall[1].kind = "login" /\ uCall[1].creds = "ok"
  /\ uCall[1].late /\ uRes[1].status = 403
  /\ uPc[2] = "done" /\ uCall[2].kind = "optimize" /\ uCall[2].late /\ uRes[2].status = 401

====
